---- MODULE Spec2Model ----
(***************************************************************************)
(* A model of the unwrapped proof-of-contribution pipeline                 *)
(* (src/unwrapped_proof): the scoring engine, the differential reward      *)
(* calculator, the contribution ledger (StorageService over a SQLAlchemy   *)
(* session) and the pipeline run Proof.generate.                           *)
(*                                                                         *)
(* Scores are Python floats in the source and double precision columns in  *)
(* the database; the model computes them bit for bit (see below).          *)
(***************************************************************************)
EXTENDS Integers, Sequences, FiniteSets, TLC

VARIABLES
    sc_in,      \* SpecScore, SpecStats: the inputs of the functions applied
    sc_out,     \* SpecScore, SpecStats: their results (empty before that)
    max_points, \* settings.MAX_POINTS of the deployment (config.py:27)
    db,         \* the committed ledger: user_contributions, contribution_proofs
    session,    \* the StorageService session: pending (uncommitted) changes
    call,       \* SpecLedger: the call in progress and its arguments
    pre,        \* the ledger as it was when the call in progress began
    last,       \* SpecLedger: what the previous finished call did
    read,       \* SpecLedger: the outcome of the latest check_existing_contribution
    fetch,      \* SpecCollector: the fetch in progress
    upstream,   \* SpecCollector: the clock and the upstream API
    req,        \* SpecRequest: one _make_request on a measured clock
    run         \* SpecRun: the runs of Proof.generate in progress

vars == <<sc_in, sc_out, max_points, db, session, call, pre, last, read, fetch, upstream, req, run>>

ledger_vars == <<sc_in, sc_out, max_points, db, session, call, pre, last, read>>

(***************************************************************************)
(* Python floats (IEEE 754 binary64, round to nearest, ties to even).      *)
(* A score is kept exactly, as the five digits <<i, d1, d2, d3, d4>> in    *)
(* base 2^16 of the number i + d1/2^16 + d2/2^32 + d3/2^48 + d4/2^64.      *)
(* Every float the pipeline computes from points / MAX_POINTS is such a    *)
(* number as long as a non-zero quotient is at least 2^-8 and a result is  *)
(* below 8: binary64 then keeps 53 significant bits, the lowest of them    *)
(* at 2^-60 or above.  float_round rounds an exact value to the nearest    *)
(* such float as the hardware does.                                       *)
(***************************************************************************)

Base == 2^16

Log2(n) == IF n < 2 THEN 0 ELSE IF n < 4 THEN 1 ELSE IF n < 8 THEN 2
    ELSE IF n < 16 THEN 3 ELSE IF n < 32 THEN 4 ELSE IF n < 64 THEN 5
    ELSE IF n < 128 THEN 6 ELSE IF n < 256 THEN 7 ELSE IF n < 512 THEN 8
    ELSE IF n < 1024 THEN 9 ELSE IF n < 2048 THEN 10 ELSE IF n < 4096 THEN 11
    ELSE IF n < 8192 THEN 12 ELSE IF n < 16384 THEN 13
    ELSE IF n < 32768 THEN 14 ELSE 15

float_zero == <<0, 0, 0, 0, 0>>
float_one == <<1, 0, 0, 0, 0>>

\* x < y and x <= y on floats
float_lt(x, y) ==
    \E k \in 1..5 : x[k] < y[k] /\ \A j \in 1..(k - 1) : x[j] = y[j]

float_le(x, y) == x = y \/ float_lt(x, y)

\* the exact sum of two values
exact_add(x, y) ==
    LET s5 == x[5] + y[5]
        s4 == x[4] + y[4] + (s5 \div Base)
        s3 == x[3] + y[3] + (s4 \div Base)
        s2 == x[2] + y[2] + (s3 \div Base)
    IN  <<x[1] + y[1] + (s2 \div Base), s2 % Base, s3 % Base, s4 % Base, s5 % Base>>

\* the exact difference x - y of two values with y <= x
exact_sub(x, y) ==
    LET t5 == x[5] - y[5]
        b5 == IF t5 < 0 THEN 1 ELSE 0
        t4 == x[4] - y[4] - b5
        b4 == IF t4 < 0 THEN 1 ELSE 0
        t3 == x[3] - y[3] - b4
        b3 == IF t3 < 0 THEN 1 ELSE 0
        t2 == x[2] - y[2] - b3
        b2 == IF t2 < 0 THEN 1 ELSE 0
    IN  <<x[1] - y[1] - b2, t2 + b2 * Base, t3 + b3 * Base, t4 + b4 * Base,
          t5 + b5 * Base>>

\* the number of low bits of the 2^-64 grid that binary64 cannot keep for x
dropped_bits(x) ==
    IF x[1] > 0 THEN 12 + Log2(x[1])
    ELSE IF x[2] >= 16 THEN Log2(x[2]) - 4
    ELSE 0

\* x, plus a remainder below 2^-64 when `inexact`, rounded to binary64
float_round(x, inexact) ==
    LET d == dropped_bits(x)
        unit == 2^d
        r == x[5] % unit
        odd == (x[5] \div unit) % 2 = 1
        up == d > 0 /\ (2 * r > unit \/ (2 * r = unit /\ (inexact \/ odd)))
        down == <<x[1], x[2], x[3], x[4], x[5] - r>>
    IN  IF up THEN exact_add(down, <<0, 0, 0, 0, unit>>) ELSE down

\* Python's x + y, x - y (for y <= x) and p / m (for ints p >= 0, m > 0)
float_add(x, y) == float_round(exact_add(x, y), FALSE)

float_sub(x, y) == float_round(exact_sub(x, y), FALSE)

float_div(p, m) ==
    LET r0 == p % m
        r1 == (r0 * Base) % m
        r2 == (r1 * Base) % m
        r3 == (r2 * Base) % m
        r4 == (r3 * Base) % m
    IN  float_round(<<p \div m, (r0 * Base) \div m, (r1 * Base) \div m,
                      (r2 * Base) \div m, (r3 * Base) \div m>>, r4 # 0)

float_min(x, y) == IF float_lt(y, x) THEN y ELSE x

(***************************************************************************)
(* Scoring engine: scoring.py                                              *)
(***************************************************************************)

\* the volume tiers with exclusive lower bounds
calculate_volume_points_exclusive(total_minutes) ==
    IF total_minutes > 5000 THEN 500
    ELSE IF total_minutes > 1000 THEN 150
    ELSE IF total_minutes > 500 THEN 50
    ELSE IF total_minutes > 100 THEN 25
    ELSE IF total_minutes > 30 THEN 5
    ELSE 0

calculate_volume_points(total_minutes) ==
    IF total_minutes >= 5000 THEN 500
    ELSE IF total_minutes >= 1000 THEN 150
    ELSE IF total_minutes >= 500 THEN 50
    ELSE IF total_minutes >= 100 THEN 25
    ELSE IF total_minutes >= 30 THEN 5
    ELSE 0

\* the diversity tiers with the points of the 25+ and 10+ tiers exchanged
calculate_diversity_points_swapped(unique_artists) ==
    IF unique_artists >= 50 THEN 150
    ELSE IF unique_artists >= 25 THEN 30
    ELSE IF unique_artists >= 10 THEN 75
    ELSE IF unique_artists >= 5 THEN 10
    ELSE IF unique_artists >= 3 THEN 5
    ELSE 0

calculate_diversity_points(unique_artists) ==
    IF unique_artists >= 50 THEN 150
    ELSE IF unique_artists >= 25 THEN 75
    ELSE IF unique_artists >= 10 THEN 30
    ELSE IF unique_artists >= 5 THEN 10
    ELSE IF unique_artists >= 3 THEN 5
    ELSE 0

calculate_history_points(days) ==
    IF days >= 180 THEN 100
    ELSE IF days >= 90 THEN 50
    ELSE IF days >= 30 THEN 25
    ELSE IF days >= 7 THEN 10
    ELSE 0

\* stats.unique_artists is a list in the source and the scorer reads only its
\* length: the model's stats carry the number of unique artists.
calculate_score(stats) ==
    LET v == calculate_volume_points(stats.total_minutes)
        d == calculate_diversity_points(stats.unique_artists)
        h == calculate_history_points(stats.activity_period_days)
    IN  [volume_points |-> v, diversity_points |-> d, history_points |-> h,
         total_points |-> v + d + h]

normalize_score_unclamped(points, maxp) ==
    IF maxp <= 0 THEN float_zero ELSE float_div(points, maxp)

\* min(1.0, points / max_points)
normalize_score(points, maxp) ==
    IF maxp <= 0 THEN float_zero ELSE float_min(float_one, float_div(points, maxp))

(***************************************************************************)
(* Differential reward calculator: Proof.generate, stages 3 and 4          *)
(***************************************************************************)

current_total_normalized_score(stats, maxp) ==
    normalize_score(calculate_score(stats).total_points, maxp)

\* the score of this run is paid in full, whatever was paid before
differential_latest_only(current, previous) == current

\* max(0.0, current - previous): for floats current - previous > 0.0 exactly
\* when current > previous
differential_normalized_score(current, previous) ==
    IF float_lt(previous, current) THEN float_sub(current, previous) ELSE float_zero

(***************************************************************************)
(* Inputs                                                                  *)
(***************************************************************************)

\* values around every tier threshold
MinutesSamples == {0, 29, 30, 99, 100, 499, 500, 999, 1000, 1200, 4999, 5000}
ArtistSamples == {0, 2, 3, 4, 5, 9, 10, 24, 25, 49, 50}
DaySamples == {0, 1, 6, 7, 29, 30, 40, 89, 90, 179, 180}

StatsSamples ==
    [total_minutes : MinutesSamples, unique_artists : ArtistSamples,
     activity_period_days : DaySamples]

\* settings.MAX_POINTS is read from the environment (default 1000); it is an
\* int, and nothing keeps it positive
MaxPointsValues == {-1000, 0, 500, 1000}

\* previous cumulative scores: sums of scores paid before
PreviousSamples ==
    { float_zero, float_div(5, 1000), float_div(205, 1000), float_div(300, 1000),
      float_div(750, 1000), float_one, float_div(1300, 1000) }

(***************************************************************************)
(* Contribution ledger: models/db.py, services/storage.py                  *)
(*   db.contrib[a]  the user_contributions row of account a: << >> when    *)
(*                  there is none, <<row>> otherwise (the column           *)
(*                  account_id_hash is unique)                             *)
(*   db.proofs      the contribution_proofs rows, in insertion order       *)
(* The session holds the changes made since the last commit or rollback;   *)
(* only session.commit() makes them part of db.                            *)
(***************************************************************************)

Accounts == {"a1", "a2"}

\* Optional[int] None of a cursor; real cursors are milliseconds since epoch
NoCursor == -1

EmptyDB == [contrib |-> [a \in Accounts |-> << >>], proofs |-> << >>]

CleanSession == [contrib |-> << >>, proofs |-> << >>]

\* SUM over the account's rows: the database adds the double precision
\* scores one by one, here in insertion order, starting from the first
RECURSIVE SumFrom(_, _, _)
SumFrom(acc, proofs, a) ==
    IF proofs = << >> THEN acc
    ELSE SumFrom(IF Head(proofs).account_id_hash = a
                 THEN float_add(acc, Head(proofs).score) ELSE acc,
                 Tail(proofs), a)

SumScores(proofs, a) == SumFrom(float_zero, proofs, a)

RECURSIVE CountRewarded(_, _)
CountRewarded(proofs, a) ==
    IF proofs = << >> THEN 0
    ELSE (IF Head(proofs).account_id_hash = a /\ float_lt(float_zero, Head(proofs).score)
          THEN 1 ELSE 0)
         + CountRewarded(Tail(proofs), a)

ProofsOf(proofs, a) == SelectSeq(proofs, LAMBDA r : r.account_id_hash = a)

\* func.sum(ContributionProof.score) filtered by account, `or 0.0`
cumulative_score(d, a) == SumScores(d.proofs, a)

\* func.count(ContributionProof.id) for the account with score > 0
times_rewarded(d, a) == CountRewarded(d.proofs, a)

store_guard_nonnegative(score) == float_le(float_zero, score)

\* store_contribution proceeds only if the score of this run is positive
store_guard(score) == float_lt(float_zero, score)

\* the row store_contribution leaves in the session: the existing row updated
\* in place, or a new row
upsert_row(d, a, stats, score, cursor, token) ==
    IF d.contrib[a] # << >>
    THEN [d.contrib[a][1] EXCEPT
             !.stats = stats,
             !.latest_score = score,
             !.encrypted_refresh_token = IF token # "" THEN token ELSE @,
             !.last_spotify_fetch_cursor = cursor]
    ELSE [stats |-> stats, latest_score |-> score,
          encrypted_refresh_token |-> token,
          last_spotify_fetch_cursor |-> cursor]

proof_record(a, score) == [account_id_hash |-> a, score |-> score]

\* the upsert commits on its own instead of waiting for the proof record
stage_upsert_autocommit(d, s, a, row) ==
    [db |-> [d EXCEPT !.contrib[a] = <<row>>], session |-> s]

\* the upsert stays pending in the session
stage_upsert(d, s, a, row) ==
    [db |-> d, session |-> [s EXCEPT !.contrib = <<[account |-> a, row |-> row]>>]]

\* the proof record commits on its own, without the pending upsert
stage_proof_autocommit(d, s, rec) ==
    [db |-> [d EXCEPT !.proofs = Append(@, rec)], session |-> s]

\* session.add(proof_record)
stage_proof(d, s, rec) ==
    [db |-> d, session |-> [s EXCEPT !.proofs = Append(@, rec)]]

\* session.commit(): every pending change becomes visible at once
session_commit(d, s) ==
    [contrib |-> IF s.contrib = << >> THEN d.contrib
                 ELSE [d.contrib EXCEPT ![s.contrib[1].account] = <<s.contrib[1].row>>],
     proofs |-> d.proofs \o s.proofs]

\* session.rollback() and session.close() drop the pending changes
session_rollback(s) == CleanSession

\* the fields of the dataclass ExistingContribution (models/contribution.py)
ExistingContributionFields ==
    {"times_rewarded", "track_count", "total_minutes", "activity_period_days",
     "unique_artists", "latest_score"}

\* the keyword arguments check_existing_contribution constructs it with
ExistingContributionKeywords ==
    {"times_rewarded", "track_count", "total_minutes", "activity_period_days",
     "unique_artists", "latest_score", "last_spotify_fetch_cursor"}

NoRead ==
    [outcome |-> "none", account |-> "a1", exists |-> FALSE,
     latest_score |-> float_zero, times_rewarded |-> 0,
     last_spotify_fetch_cursor |-> NoCursor]

\* StorageService.check_existing_contribution: (False, None) when the account
\* has no row; with a row, the sum and the count are queried and the result
\* is constructed, which raises TypeError for a keyword that is no field of
\* the dataclass; a database error is rolled back and re-raised
check_existing_contribution(d, a, db_error) ==
    IF db_error THEN [NoRead EXCEPT !.outcome = "SQLAlchemyError", !.account = a]
    ELSE IF d.contrib[a] = << >>
    THEN [NoRead EXCEPT !.outcome = "returned", !.account = a]
    ELSE IF ExistingContributionKeywords \subseteq ExistingContributionFields
    THEN [outcome |-> "returned", account |-> a, exists |-> TRUE,
          latest_score |-> cumulative_score(d, a),
          times_rewarded |-> times_rewarded(d, a),
          last_spotify_fetch_cursor |-> d.contrib[a][1].last_spotify_fetch_cursor]
    ELSE [NoRead EXCEPT !.outcome = "TypeError", !.account = a]

(***************************************************************************)
(* The collector: services/spotify.py, SpotifyAPI.fetch_all_listening_     *)
(* history with get_recently_played, get_top_tracks, get_top_artists and   *)
(* _make_request.                                                          *)
(*   fetch     the locals of the fetch in progress and of its request      *)
(*   upstream  the clock and what the upstream API has seen and answered   *)
(*             in this fetch: the page cursors issued and answered, whether *)
(*             the budget was already exhausted at the first time check    *)
(*             (budget_zero), whether any HTTP attempt was sent            *)
(*             (requested), whether an attempt was answered 401 or 403     *)
(*             (auth_rejected) and whether a request used up its attempts  *)
(*             (cap_exhausted), and the cursor of the page request that    *)
(*             was answered with a malformed payload (malformed), and the  *)
(*             track ids of the well-formed items it has answered (offered) *)
(*             and, when the page it has just answered was empty or had    *)
(*             a last item without a timestamp that parses, the track ids  *)
(*             of the well-formed items of that page (stop_page, until the *)
(*             fetch takes its next step), and of any page it has just     *)
(*             answered the timestamp of the last item, of the last item   *)
(*             whose played_at is a string and of the newest item, the     *)
(*             page itself and the length the scoring list had before it   *)
(*             (page_seen, kept as long as stop_page)                      *)
(* Timestamps are milliseconds; the epoch is shifted so that they fit the  *)
(* integers of the checker.  The clock is kept as the one fact the code    *)
(* reads from it: whether elapsed >= FETCH_TIME_LIMIT_SECONDS.  Time only  *)
(* moves forward, and any _time_check may be the first to see the limit    *)
(* passed.                                                                 *)
(***************************************************************************)

MAX_RECENT_PAGES == 15
MAX_CURSOR_AGE_DAYS == 7
\* _make_request(endpoint, retries=3)
retries == 3

MsPerDay == 24 * 60 * 60 * 1000

\* int(time.time() * 1000) at the start of the fetch
now_ms == 8 * MsPerDay

cursor_cutoff == now_ms - (MAX_CURSOR_AGE_DAYS * MsPerDay)

\* a clock that may run backwards: a check may pass after one has failed
time_check_forgetful(expired) == {TRUE, FALSE}

\* the results a _time_check() may give when the limit was or was not seen
\* passed before
time_check(expired) == IF expired THEN {FALSE} ELSE {TRUE, FALSE}

\* `if start_cursor and start_cursor > cursor_cutoff`: None and 0 are falsy
start_cursor_kept(start_cursor) ==
    start_cursor # NoCursor /\ start_cursor # 0 /\ start_cursor > cursor_cutoff

TrackIds == {"t1", "t2"}

\* an item of a recently-played page: the id of its track ("none" when the
\* track or its id is missing), whether played_at is a string, and the
\* milliseconds parse_spotify_datetime gives for it (NoCursor when it
\* returns None)
Entries ==
    { [id |-> "t1", is_str |-> TRUE, ms |-> now_ms - 1000],
      [id |-> "t2", is_str |-> TRUE, ms |-> now_ms - 2000],
      [id |-> "none", is_str |-> TRUE, ms |-> now_ms - 3000],
      [id |-> "t1", is_str |-> TRUE, ms |-> NoCursor],
      [id |-> "t2", is_str |-> FALSE, ms |-> NoCursor] }

\* bound on the number of items of a page
MaxItems == 2

Pages == UNION { [1..n -> Entries] : n \in 0..MaxItems }

\* the items of a top-tracks answer: track ids, "none" for an invalid item
TopPages == { << >>, <<"t1">>, <<"none", "t2">>, <<"t2", "t1">> }

\* line 302: the entry has a track with an id and a played_at
entry_valid(e) == e.id # "none" /\ e.is_str

\* lines 299-308: the entries of a page that are new go to the scoring list,
\* each with its track id and whether its played_at will parse
RECURSIVE add_page_tracks(_, _)
add_page_tracks(tracks, page) ==
    IF page = << >> THEN tracks
    ELSE LET e == Head(page)
             seen == { tracks[i].id : i \in 1..Len(tracks) }
         IN  add_page_tracks(IF entry_valid(e) /\ e.id \notin seen
                             THEN Append(tracks, [id |-> e.id, parses |-> e.ms # NoCursor])
                             ELSE tracks,
                             Tail(page))

\* lines 339-344: the top tracks that are new go to the scoring list, with a
\* synthetic played_at (an isoformat string, which parses)
RECURSIVE add_top_tracks(_, _)
add_top_tracks(tracks, items) ==
    IF items = << >> THEN tracks
    ELSE LET seen == { tracks[i].id : i \in 1..Len(tracks) }
         IN  add_top_tracks(IF Head(items) # "none" /\ Head(items) \notin seen
                            THEN Append(tracks, [id |-> Head(items), parses |-> TRUE])
                            ELSE tracks,
                            Tail(items))

\* get_formatted_history, lines 398-426: the track ids of the Track events
\* made from the scoring list; an entry whose played_at does not parse is
\* skipped
RECURSIVE formatted_tracks(_)
formatted_tracks(tracks) ==
    IF tracks = << >> THEN << >>
    ELSE IF Head(tracks).parses
         THEN << Head(tracks).id >> \o formatted_tracks(Tail(tracks))
         ELSE formatted_tracks(Tail(tracks))

\* the track ids of the well-formed items of a page (a track with an id and
\* a played_at that parses) and of a top-tracks answer (a track with an id)
page_offers(page) ==
    { page[i].id : i \in { j \in 1..Len(page) :
                             entry_valid(page[j]) /\ page[j].ms # NoCursor } }

top_offers(items) == { items[i] : i \in 1..Len(items) } \ {"none"}

\* line 301: page_last_played_at_str is the played_at of the last entry whose
\* played_at is a string; << >> when the page has none
RECURSIVE page_last_played_at(_)
page_last_played_at(page) ==
    IF page = << >> THEN << >>
    ELSE IF page[Len(page)].is_str THEN << page[Len(page)] >>
    ELSE page_last_played_at(SubSeq(page, 1, Len(page) - 1))

\* the page is empty, or the played_at of its last item is no timestamp
\* that parses
page_ends_history(page) ==
    page = << >> \/ ~page[Len(page)].is_str \/ page[Len(page)].ms = NoCursor

\* the timestamps of a page: that of its last item (NoCursor when that has
\* no played_at string or one that does not parse), that of the last item
\* whose played_at is a string, and the newest of those that parse
page_times(page) ==
    LET last_item == IF page = << >> \/ ~page[Len(page)].is_str THEN NoCursor
                     ELSE page[Len(page)].ms
        last_str == IF page_last_played_at(page) = << >> THEN NoCursor
                    ELSE page_last_played_at(page)[1].ms
        times == { page[i].ms : i \in 1..Len(page) } \cup {NoCursor}
    IN  [last_ms |-> last_item, str_ms |-> last_str, items |-> Len(page),
         newest_ms |-> CHOOSE m \in times : \A n \in times : n <= m]

\* what the upstream may answer to one HTTP attempt
PageResponses ==
    [kind : {"items"}, items : Pages] \cup
    [kind : {"malformed", "dump_error", "401", "403", "404", "429", "500", "network"},
     items : {<< >>}]

TopResponses ==
    [kind : {"items"}, items : TopPages] \cup
    [kind : {"malformed", "dump_error", "401", "403", "404", "429", "500", "network"},
     items : {<< >>}]

IdleFetch ==
    [pc |-> "idle", phase |-> "pages", range |-> 0, start_cursor |-> NoCursor,
     current_before_cursor |-> NoCursor, last_successful_before_cursor |-> NoCursor,
     request_cursor |-> NoCursor, page_count |-> 0, all_tracks |-> << >>,
     attempt |-> 0, last_exception |-> FALSE, outcome |-> "none"]

IdleUpstream ==
    [expired |-> FALSE, issued |-> {}, answered |-> {}, last_answered |-> NoCursor,
     stopped_by_budget |-> FALSE, tracks_at_stop |-> << >>,
     budget_zero |-> FALSE, requested |-> FALSE, auth_rejected |-> FALSE,
     cap_exhausted |-> FALSE, malformed |-> NoCursor, offered |-> {},
     stop_page |-> << >>, page_seen |-> << >>]

\* _make_request on a clock that is read in tenths of a second: the locals
\* of the call, the time elapsed since start_time, and the length of the
\* sleep it has entered; answers lists what the upstream answered to each
\* HTTP attempt of the call
IdleRequest ==
    [pc |-> "idle", attempt |-> 0, last_exception |-> FALSE, elapsed |-> 0,
     sleep |-> 0, outcome |-> "none", answers |-> << >>, header |-> << >>]

CollectorIdle == fetch = IdleFetch /\ upstream = IdleUpstream /\ req = IdleRequest

(***************************************************************************)
(* SpecScore: the scorer and the calculator applied to drawn inputs        *)
(***************************************************************************)

ZeroStats == [total_minutes |-> 0, unique_artists |-> 0, activity_period_days |-> 0]

\* the processes that may run Proof.generate at the same time: each has its
\* own StorageService session, all share the committed database
Runs == {1, 2}

\* a destination address as urlparse sees it: scheme, the labels of netloc
\* and the segments of path; NoUrl is the empty string
NoUrl == [scheme |-> "", netloc |-> << >>, path |-> << >>]

\* the locals of one Proof.generate: the stage it is at, the values of stages
\* 1 to 4, the session of its StorageService and the response it returned;
\* whole tells a run that began at stage 1 from one that was given the
\* values of stages 1 and 2; row_seen, row_cursor, pre_len, env_ok and
\* trace record what the run met: the ledger row at its read, the number of
\* proof records when it began, whether every upstream, disk, gpg, S3 and
\* database operation it asked for succeeded, and the operations it did
\* ("raised" follows a publisher operation that failed)
IdleRun ==
    [pc |-> "idle", whole |-> FALSE, account |-> "a1", exists |-> FALSE,
     previous |-> float_zero, start_cursor |-> NoCursor, stats |-> ZeroStats,
     cursor |-> NoCursor, current |-> float_zero, score |-> float_zero,
     url |-> NoUrl, session |-> CleanSession, inserts |-> FALSE,
     outcome |-> "none", error |-> "", row_seen |-> FALSE,
     row_cursor |-> NoCursor, pre_len |-> 0, env_ok |-> TRUE, trace |-> << >>]

RunIdle == run = [p \in Runs |-> IdleRun]

IdleCall ==
    [pc |-> "idle", via_generate |-> FALSE, account |-> "a1", stats |-> ZeroStats,
     current |-> float_zero, previous |-> float_zero, score |-> float_zero,
     cursor |-> NoCursor,
     token |-> "", outcome |-> "none", at |-> "none"]

NoLast == [account |-> "a1", stats |-> ZeroStats, settled |-> FALSE]

LedgerIdle ==
    /\ db = EmptyDB
    /\ session = CleanSession
    /\ call = IdleCall
    /\ pre = EmptyDB
    /\ last = NoLast
    /\ read = NoRead

InitScore ==
    /\ sc_in \in [stats : StatsSamples, previous : PreviousSamples]
    /\ sc_out = << >>
    /\ max_points \in MaxPointsValues
    /\ LedgerIdle
    /\ CollectorIdle
    /\ RunIdle

\* proof.py:199-209 on the drawn stats and previous cumulative score
ApplyScore ==
    /\ sc_out = << >>
    /\ LET breakdown == calculate_score(sc_in.stats)
           current == normalize_score(breakdown.total_points, max_points)
       IN  sc_out' = << [breakdown |-> breakdown,
                         current |-> current,
                         reward |-> differential_normalized_score(current, sc_in.previous)] >>
    /\ UNCHANGED <<sc_in, max_points, db, session, call, pre, last, read, fetch, upstream, req, run>>

NextScore == ApplyScore

SpecScore == InitScore /\ [][NextScore]_vars

(***************************************************************************)
(* SpecStats: the activity period that get_formatted_history computes from *)
(* the entries of the scoring list.  An entry is the time its played_at    *)
(* parses to, in milliseconds (NoCursor when it does not parse); sc_in     *)
(* holds the drawn entries and sc_out the statistics.                      *)
(***************************************************************************)

MsPerHour == 60 * 60 * 1000

\* datetime.fromtimestamp(0, timezone.utc), line 388: in the shifted time of
\* the model a moment before every timestamp an entry may carry
epoch_ms == 0 - MsPerDay

\* Optional[datetime] None of first_listen_date and last_listen_date
NoDate == -1

\* played_at values: late on day 1, early on day 6, early on day 7, late on
\* day 7, one that the clock of the upstream puts after now, and one that
\* does not parse
ListenedAtSamples ==
    {NoCursor, 2 * MsPerDay - MsPerHour, 6 * MsPerDay + MsPerHour,
     7 * MsPerDay + MsPerHour, now_ms - MsPerHour, now_ms + MsPerHour}

\* bound on the number of entries of the scoring list
MaxEntries == 3

\* lines 387-426: the loop over the scoring list, from the values the three
\* locals have before it; an entry that does not parse is skipped
RECURSIVE listen_range(_, _)
listen_range(acc, entries) ==
    IF entries = << >> THEN acc
    ELSE IF Head(entries) = NoCursor THEN listen_range(acc, Tail(entries))
    ELSE LET listened_at == Head(entries)
         IN  listen_range(
               [earliest_listen_scoring |->
                    IF listened_at < acc.earliest_listen_scoring
                    THEN listened_at ELSE acc.earliest_listen_scoring,
                latest_listen_scoring |->
                    IF listened_at > acc.latest_listen_scoring
                    THEN listened_at ELSE acc.latest_listen_scoring,
                processed_track_count_scoring |-> acc.processed_track_count_scoring + 1],
               Tail(entries))

\* lines 387-442: the activity period and the dates of ListeningStats;
\* timedelta.days is the number of whole days of the difference
activity_stats(entries, now) ==
    LET r == listen_range([earliest_listen_scoring |-> now,
                           latest_listen_scoring |-> epoch_ms,
                           processed_track_count_scoring |-> 0], entries)
        some == r.processed_track_count_scoring > 0
    IN  [track_count |-> r.processed_track_count_scoring,
         activity_period_days |->
            IF ~some THEN 0
            ELSE IF r.latest_listen_scoring > r.earliest_listen_scoring
            THEN ((r.latest_listen_scoring - r.earliest_listen_scoring) \div MsPerDay) + 1
            ELSE 1,
         first_listen_date |-> IF some THEN r.earliest_listen_scoring ELSE NoDate,
         last_listen_date |-> IF some THEN r.latest_listen_scoring ELSE NoDate]

InitStats ==
    /\ sc_in \in [entries : UNION { [1..n -> ListenedAtSamples] : n \in 0..MaxEntries }]
    /\ sc_out = << >>
    /\ max_points = 1000
    /\ LedgerIdle
    /\ CollectorIdle
    /\ RunIdle

\* get_formatted_history, lines 383-442, on the drawn scoring list
FormatStats ==
    /\ sc_out = << >>
    /\ sc_out' = << activity_stats(sc_in.entries, now_ms) >>
    /\ UNCHANGED <<sc_in, max_points, db, session, call, pre, last, read, fetch, upstream, req, run>>

NextStats == FormatStats

SpecStats == InitStats /\ [][NextStats]_vars

(***************************************************************************)
(* SpecLedger: the ledger driven through StorageService.store_contribution *)
(* A caller draws the values Proof.generate hands to stage 7 (the account, *)
(* the stats of this run, the previous cumulative score, the cursor and    *)
(* the credential), computes the score to award as stages 3 and 4 do, and  *)
(* either goes through the guard of stage 7 or calls store_contribution    *)
(* directly.  store_contribution runs step by step; the database may fail  *)
(* at the query and at the commit.  The previous cumulative score of a     *)
(* call is what the SUM query of check_existing_contribution gives for the *)
(* ledger; check_existing_contribution as a whole is the action            *)
(* ReadExisting.                                                           *)
(***************************************************************************)

\* bound on the number of contribution_proofs rows
MaxProofs == 3

\* stats worth 0, 25 and 105 points
LedgerStats ==
    { ZeroStats,
      [total_minutes |-> 100, unique_artists |-> 0, activity_period_days |-> 0],
      [total_minutes |-> 500, unique_artists |-> 10, activity_period_days |-> 30] }

\* values of settings.MAX_POINTS: the default, and one below 105 points
LedgerMaxPoints == {100, 1000}

CursorSamples == {NoCursor, 7}

TokenSamples == {"", "tk"}

ScoreIdle == sc_in = [stats |-> ZeroStats, previous |-> float_zero] /\ sc_out = << >>

InitLedger ==
    /\ ScoreIdle
    /\ max_points \in LedgerMaxPoints
    /\ LedgerIdle
    /\ CollectorIdle
    /\ RunIdle

\* proof.py:284  if final_score_to_award > 0
stage7_guard(score) == float_lt(float_zero, score)


\* proof.py:199-209 and 282-298, storage.py:85-87
Begin(a, stats, cursor, token, via) ==
    /\ call.pc = "idle"
    /\ read = NoRead
    /\ LET previous == cumulative_score(db, a)
           current == current_total_normalized_score(stats, max_points)
           score == differential_normalized_score(current, previous)
           enters == (via => stage7_guard(score)) /\ store_guard(score)
       IN  /\ enters => Len(db.proofs) < MaxProofs
           /\ call' = [pc |-> IF enters THEN "query" ELSE "done",
                    via_generate |-> via, account |-> a, stats |-> stats,
                    current |-> current, previous |-> previous, score |-> score,
                    cursor |-> cursor, token |-> token,
                    outcome |-> IF enters THEN "none" ELSE "returned",
                    at |-> "none"]
    /\ pre' = db
    /\ UNCHANGED <<sc_in, sc_out, max_points, db, session, last, read, fetch, upstream, req, run>>

\* storage.py:21-78  between two calls the ledger is read for an account; a
\* database error rolls the session back and is re-raised
ReadExisting(a, db_error) ==
    /\ call.pc = "idle"
    /\ read = NoRead
    /\ read' = check_existing_contribution(db, a, db_error)
    /\ session' = IF db_error THEN session_rollback(session) ELSE session
    /\ UNCHANGED <<sc_in, sc_out, max_points, db, call, pre, last, fetch, upstream, req, run>>

\* the caller has taken the result of the read
ReadTaken ==
    /\ read # NoRead
    /\ read' = NoRead
    /\ UNCHANGED <<sc_in, sc_out, max_points, db, session, call, pre, last, fetch, upstream, req, run>>

\* storage.py:110-148  query the row, update it or add a new one
StoreUpsert ==
    /\ call.pc = "query"
    /\ LET row == upsert_row(db, call.account, call.stats, call.score,
                             call.cursor, call.token)
           res == stage_upsert(db, session, call.account, row)
       IN  db' = res.db /\ session' = res.session
    /\ call' = [call EXCEPT !.pc = "add"]
    /\ UNCHANGED <<sc_in, sc_out, max_points, pre, last, read, fetch, upstream, req, run>>

\* storage.py:179-186  an error before the commit: rollback and re-raise
StoreError ==
    /\ call.pc \in {"query", "add"}
    /\ session' = session_rollback(session)
    /\ call' = [call EXCEPT !.pc = "done", !.outcome = "raised", !.at = call.pc]
    /\ UNCHANGED <<sc_in, sc_out, max_points, db, pre, last, read, fetch, upstream, req, run>>

\* storage.py:152-165
StoreAddProof ==
    /\ call.pc = "add"
    /\ LET res == stage_proof(db, session, proof_record(call.account, call.score))
       IN  db' = res.db /\ session' = res.session
    /\ call' = [call EXCEPT !.pc = "commit"]
    /\ UNCHANGED <<sc_in, sc_out, max_points, pre, last, read, fetch, upstream, req, run>>

\* storage.py:168
StoreCommit ==
    /\ call.pc = "commit"
    /\ db' = session_commit(db, session)
    /\ session' = CleanSession
    /\ call' = [call EXCEPT !.pc = "done", !.outcome = "returned"]
    /\ UNCHANGED <<sc_in, sc_out, max_points, pre, last, read, fetch, upstream, req, run>>

\* storage.py:168, 179-186  the commit fails: rollback and re-raise
StoreCommitError ==
    /\ call.pc = "commit"
    /\ session' = session_rollback(session)
    /\ call' = [call EXCEPT !.pc = "done", !.outcome = "raised", !.at = "commit"]
    /\ UNCHANGED <<sc_in, sc_out, max_points, db, pre, last, read, fetch, upstream, req, run>>

\* the call is over; the next one sees the ledger it left
Finish ==
    /\ call.pc = "done"
    /\ last' = [account |-> call.account, stats |-> call.stats,
                settled |-> /\ call.outcome = "returned"
                            /\ call.previous = SumScores(pre.proofs, call.account)]
    /\ call' = IdleCall
    /\ pre' = db
    /\ UNCHANGED <<sc_in, sc_out, max_points, db, session, read, fetch, upstream, req, run>>

NextLedger ==
    \/ \E a \in Accounts, stats \in LedgerStats, cursor \in CursorSamples,
          token \in TokenSamples, via \in BOOLEAN :
          Begin(a, stats, cursor, token, via)
    \/ \E a \in Accounts, db_error \in BOOLEAN : ReadExisting(a, db_error)
    \/ ReadTaken
    \/ StoreUpsert
    \/ StoreError
    \/ StoreAddProof
    \/ StoreCommit
    \/ StoreCommitError
    \/ Finish

SpecLedger == InitLedger /\ [][NextLedger]_vars

(***************************************************************************)
(* SpecCollector: one fetch_all_listening_history, for every resume cursor *)
(* it may be given and everything the upstream and the clock may do        *)
(***************************************************************************)

\* pagination is over (break, or MAX_RECENT_PAGES reached): on to the top
\* tracks; the locals that are not read after the loop are dropped
end_pagination(f) ==
    [f EXCEPT !.pc = "tops_if", !.phase = "top_tracks", !.range = 0,
              !.current_before_cursor = NoCursor, !.request_cursor = NoCursor,
              !.page_count = 0, !.attempt = 0, !.last_exception = FALSE]

\* the top-tracks part is over: on to the top artists; after those, return
next_phase(f) ==
    IF f.phase = "top_tracks"
    THEN [f EXCEPT !.pc = "tops_if", !.phase = "top_artists", !.range = 0]
    ELSE [f EXCEPT !.pc = "done", !.outcome = "returned"]

\* line 294: the cursor of the request is marked successful whenever
\* get_recently_played has returned, whatever it returned
mark_successful(f, items) == f.request_cursor

\* the next page is asked from the timestamp of the last item itself
next_before_cursor_inclusive(ms) == ms

\* line 315: int(last_played_at_dt.timestamp() * 1000) - 1
next_before_cursor(ms) == ms - 1

\* lines 292-319: get_recently_played has returned `items`
page_returned(f, items) ==
    LET g == [f EXCEPT !.page_count = @ + 1,
                       !.last_successful_before_cursor = mark_successful(f, items)]
        played == page_last_played_at(items)
    IN  IF items = << >> THEN end_pagination(g)
        ELSE LET h == [g EXCEPT !.all_tracks = add_page_tracks(@, items)]
             IN  IF played = << >> \/ played[1].ms = NoCursor THEN end_pagination(h)
                 ELSE [h EXCEPT !.current_before_cursor = next_before_cursor(played[1].ms),
                                !.pc = "page_top"]

\* the call of get_recently_played, get_top_tracks or get_top_artists has
\* returned `items` to fetch_all_listening_history
request_returned(f, items) ==
    IF f.phase = "pages" THEN page_returned(f, items)
    ELSE IF f.phase = "top_tracks"
    THEN [f EXCEPT !.all_tracks = add_top_tracks(@, items), !.pc = "tops_for",
                   !.attempt = 0, !.last_exception = FALSE]
    ELSE [f EXCEPT !.pc = "tops_for", !.attempt = 0, !.last_exception = FALSE]

\* lines 320, 346, 359: a RequestException ends the pagination, and is
\* logged in the loops over the time ranges, which go on
request_raised(f) ==
    IF f.phase = "pages" THEN end_pagination(f)
    ELSE [f EXCEPT !.pc = "tops_for", !.attempt = 0, !.last_exception = FALSE]

\* any other exception leaves fetch_all_listening_history
other_raised(f) == [f EXCEPT !.pc = "done", !.outcome = "raised"]

\* the budget was found exhausted before a page request
budget_stop(u, f) ==
    [u EXCEPT !.expired = TRUE, !.stopped_by_budget = TRUE,
              !.tracks_at_stop = f.all_tracks]

\* lines 254-283
StartFetch(start_cursor) ==
    /\ fetch.pc = "idle"
    /\ LET kept == start_cursor_kept(start_cursor)
       IN  /\ fetch' = [IdleFetch EXCEPT
                 !.pc = "page_top",
                 !.start_cursor = start_cursor,
                 !.current_before_cursor = IF kept THEN start_cursor ELSE now_ms,
                 !.last_successful_before_cursor =
                     IF kept THEN start_cursor ELSE NoCursor]
           /\ upstream' = [IdleUpstream EXCEPT
                 !.last_answered = IF kept THEN start_cursor ELSE NoCursor]
    /\ UNCHANGED <<ledger_vars, req, run>>

\* the loop goes on after MAX_RECENT_PAGES pages, for one page more
more_pages_inclusive(page_count) == page_count <= MAX_RECENT_PAGES

\* line 285: while page_count < MAX_RECENT_PAGES
more_pages(page_count) == page_count < MAX_RECENT_PAGES

\* lines 285-288: the head of the pagination loop
PageTop(ok) ==
    /\ fetch.pc = "page_top"
    /\ IF ~more_pages(fetch.page_count)
       THEN /\ ok = ~upstream.expired
            /\ fetch' = end_pagination(fetch)
            /\ upstream' = [upstream EXCEPT !.stop_page = << >>, !.page_seen = << >>]
       ELSE /\ ok \in time_check(upstream.expired)
            /\ IF ok
               THEN /\ fetch' = [fetch EXCEPT !.pc = "page_call",
                                    !.request_cursor = fetch.current_before_cursor]
                    /\ upstream' = [upstream EXCEPT !.stop_page = << >>, !.page_seen = << >>]
               ELSE /\ fetch' = end_pagination(fetch)
                    /\ upstream' = [budget_stop(upstream, fetch) EXCEPT
                          !.budget_zero = (fetch.page_count = 0),
                          !.stop_page = << >>, !.page_seen = << >>]
    /\ UNCHANGED <<ledger_vars, req, run>>

\* lines 110-117: get_recently_played up to its call of _make_request
PageCall(ok) ==
    /\ fetch.pc = "page_call"
    /\ ok \in time_check(upstream.expired)
    /\ IF ok
       THEN /\ fetch' = [fetch EXCEPT !.pc = "attempt", !.attempt = 0,
                                      !.last_exception = FALSE]
            /\ UNCHANGED upstream
       ELSE /\ fetch' = request_returned(fetch, << >>)
            /\ upstream' = budget_stop(upstream, fetch)
    /\ UNCHANGED <<ledger_vars, req, run>>

\* lines 328 and 350: the time checks before the loops over the time
\* ranges; lines 331-332 and 352-353: the heads of those loops
TopsIf(ok) ==
    /\ fetch.pc = "tops_if"
    /\ ok \in time_check(upstream.expired)
    /\ fetch' = IF ok THEN [fetch EXCEPT !.pc = "tops_for"] ELSE next_phase(fetch)
    /\ upstream' = [upstream EXCEPT !.expired = @ \/ ~ok, !.stop_page = << >>, !.page_seen = << >>]
    /\ UNCHANGED <<ledger_vars, req, run>>

TopsFor(ok) ==
    /\ fetch.pc = "tops_for"
    /\ IF fetch.range >= 3
       THEN /\ ok = ~upstream.expired
            /\ fetch' = next_phase(fetch)
            /\ UNCHANGED upstream
       ELSE /\ ok \in time_check(upstream.expired)
            /\ fetch' = IF ok THEN [fetch EXCEPT !.pc = "tops_call", !.range = @ + 1]
                        ELSE next_phase(fetch)
            /\ upstream' = [upstream EXCEPT !.expired = @ \/ ~ok]
    /\ UNCHANGED <<ledger_vars, req, run>>

\* lines 133-138 and 153-158: get_top_tracks, get_top_artists up to their
\* call of _make_request
TopsCall(ok) ==
    /\ fetch.pc = "tops_call"
    /\ ok \in time_check(upstream.expired)
    /\ fetch' = IF ok THEN [fetch EXCEPT !.pc = "attempt", !.attempt = 0,
                                         !.last_exception = FALSE]
                ELSE request_returned(fetch, << >>)
    /\ upstream' = [upstream EXCEPT !.expired = @ \/ ~ok]
    /\ UNCHANGED <<ledger_vars, req, run>>

\* a retry loop that goes on after `retries` attempts
Attempt_uncapped(ok) ==
    /\ fetch.pc = "attempt"
    /\ ok \in time_check(upstream.expired)
    /\ IF ok
       THEN /\ fetch' = [fetch EXCEPT !.pc = "http", !.attempt = @ + 1]
            /\ upstream' = [upstream EXCEPT
                  !.requested = TRUE,
                  !.issued = IF fetch.phase = "pages"
                             THEN @ \cup {fetch.request_cursor} ELSE @]
       ELSE /\ fetch' = request_raised(fetch)
            /\ upstream' =
                  IF fetch.phase = "pages" /\ fetch.attempt = 0
                  THEN budget_stop(upstream, fetch)
                  ELSE [upstream EXCEPT !.expired = TRUE]
    /\ UNCHANGED <<ledger_vars, req, run>>

\* lines 173-182: the head of the retry loop of _make_request and the HTTP
\* attempt it sends
Attempt(ok) ==
    /\ fetch.pc = "attempt"
    /\ IF fetch.attempt >= retries
       THEN /\ ok = ~upstream.expired
            /\ fetch' = request_raised(fetch)
            /\ upstream' = [upstream EXCEPT !.cap_exhausted = TRUE]
       ELSE /\ ok \in time_check(upstream.expired)
            /\ IF ok
               THEN /\ fetch' = [fetch EXCEPT !.pc = "http", !.attempt = @ + 1]
                    /\ upstream' = [upstream EXCEPT
                          !.requested = TRUE,
                          !.issued = IF fetch.phase = "pages"
                                     THEN @ \cup {fetch.request_cursor} ELSE @]
               ELSE /\ fetch' = request_raised(fetch)
                    /\ upstream' =
                          IF fetch.phase = "pages" /\ fetch.attempt = 0
                          THEN budget_stop(upstream, fetch)
                          ELSE [upstream EXCEPT !.expired = TRUE]
    /\ UNCHANGED <<ledger_vars, req, run>>

\* lines 182-225: the upstream answers the attempt with r, and _make_request
\* returns, raises or goes on to the next attempt
Respond(r, ok) ==
    /\ fetch.pc = "http"
    /\ LET checks == \/ r.kind = "429"
                     \/ r.kind \in {"500", "network"} /\ fetch.attempt < retries
           f == [fetch EXCEPT !.last_exception = TRUE]
       IN  /\ IF checks THEN ok \in time_check(upstream.expired)
              ELSE ok = ~upstream.expired
           /\ fetch' =
                CASE r.kind = "items" -> request_returned(fetch, r.items)
                  [] r.kind = "malformed" -> request_returned(fetch, << >>)
                  [] r.kind = "dump_error" -> other_raised(fetch)
                  [] r.kind \in {"401", "403", "404"} -> request_raised(f)
                  [] OTHER -> IF ~ok THEN request_raised(f)
                              ELSE [f EXCEPT !.pc = IF checks THEN "backoff" ELSE "attempt"]
           /\ upstream' =
                IF r.kind = "items" /\ fetch.phase = "pages"
                THEN [upstream EXCEPT !.answered = @ \cup {fetch.request_cursor},
                                      !.last_answered = fetch.request_cursor,
                                      !.offered = @ \cup page_offers(r.items),
                                      !.stop_page =
                                          IF page_ends_history(r.items)
                                          THEN << page_offers(r.items) >> ELSE << >>,
                                      !.page_seen =
                                          << page_times(r.items),
                                             [page |-> r.items,
                                              kept_before |-> Len(fetch.all_tracks)] >>]
                ELSE IF r.kind = "items" /\ fetch.phase = "top_tracks"
                THEN [upstream EXCEPT !.offered = @ \cup top_offers(r.items)]
                ELSE [upstream EXCEPT
                        !.expired = @ \/ ~ok,
                        !.auth_rejected = @ \/ r.kind \in {"401", "403"},
                        !.malformed =
                            IF r.kind = "malformed" /\ fetch.phase = "pages"
                            THEN fetch.request_cursor ELSE @]
    /\ UNCHANGED <<ledger_vars, req, run>>

\* lines 212 and 221: time.sleep is over, on to the head of the retry loop
Wake ==
    /\ fetch.pc = "backoff"
    /\ fetch' = [fetch EXCEPT !.pc = "attempt"]
    /\ UNCHANGED <<ledger_vars, upstream, req, run>>

\* stale and fresh resume cursors, None and 0
StartCursorSamples ==
    {NoCursor, 0, cursor_cutoff - 1, cursor_cutoff, cursor_cutoff + 1, now_ms - 5000}

InitCollector ==
    /\ ScoreIdle
    /\ max_points = 1000
    /\ LedgerIdle
    /\ CollectorIdle
    /\ RunIdle

NextCollector ==
    \/ \E start_cursor \in StartCursorSamples : StartFetch(start_cursor)
    \/ \E ok \in BOOLEAN : PageTop(ok)
    \/ \E ok \in BOOLEAN : PageCall(ok)
    \/ \E ok \in BOOLEAN : Attempt(ok)
    \/ \E ok \in BOOLEAN : \E r \in PageResponses :
          fetch.phase = "pages" /\ Respond(r, ok)
    \/ \E ok \in BOOLEAN : \E r \in TopResponses :
          fetch.phase # "pages" /\ Respond(r, ok)
    \/ \E ok \in BOOLEAN : TopsIf(ok)
    \/ \E ok \in BOOLEAN : TopsFor(ok)
    \/ \E ok \in BOOLEAN : TopsCall(ok)
    \/ Wake

SpecCollector == InitCollector /\ [][NextCollector]_vars

\* the collector is run by one thread that is never suspended for good: a
\* statement that can be executed is executed, session.get(url, timeout=15)
\* returns or raises, and time.sleep returns
\* (SpecCollectorFair); the pages and answers it is given are fewer: an empty
\* page, a page that continues the history and one that ends it
FairPages ==
    { << >>,
      << [id |-> "t1", is_str |-> TRUE, ms |-> now_ms - 1000] >>,
      << [id |-> "t2", is_str |-> TRUE, ms |-> NoCursor] >> }

NextCollectorFair ==
    \/ \E start_cursor \in {NoCursor, now_ms - 5000} : StartFetch(start_cursor)
    \/ \E ok \in BOOLEAN : PageTop(ok)
    \/ \E ok \in BOOLEAN : PageCall(ok)
    \/ \E ok \in BOOLEAN : Attempt(ok)
    \/ \E ok \in BOOLEAN : \E r \in PageResponses :
          /\ r.kind = "items" => r.items \in FairPages
          /\ fetch.phase = "pages" /\ Respond(r, ok)
    \/ \E ok \in BOOLEAN : \E r \in TopResponses :
          /\ r.kind = "items" => r.items \in {<< >>, <<"none", "t2">>}
          /\ fetch.phase # "pages" /\ Respond(r, ok)
    \/ \E ok \in BOOLEAN : TopsIf(ok)
    \/ \E ok \in BOOLEAN : TopsFor(ok)
    \/ \E ok \in BOOLEAN : TopsCall(ok)
    \/ Wake

SpecCollectorFair ==
    InitCollector /\ [][NextCollectorFair]_vars /\ WF_vars(NextCollectorFair)

(***************************************************************************)
(* SpecRequest: one _make_request, with the clock measured.  Times are in  *)
(* tenths of a second; req.elapsed is time.time() - self.start_time.       *)
(***************************************************************************)

FETCH_TIME_LIMIT_SECONDS == 50
RATE_LIMIT_RETRY_BASE_DELAY == 2
\* session.get(url, timeout=15)
request_timeout == 15
\* the ceiling of retry_after, line 209
max_retry_after == 60

TicksPerSecond == 10

\* lines 82-86: _time_check() when `elapsed` tenths of a second have passed
within_limit(elapsed) == ~(elapsed >= FETCH_TIME_LIMIT_SECONDS * TicksPerSecond)

\* response.headers has no 'Retry-After'; a header that is there is << text >>,
\* its text a sequence of characters
NoHeader == << >>

Digits == <<"0", "1", "2", "3", "4", "5", "6", "7", "8", "9">>

is_digit(c) == \E d \in 1..Len(Digits) : Digits[d] = c

digit_value(c) == (CHOOSE d \in 1..Len(Digits) : Digits[d] = c) - 1

RECURSIVE decimal(_)
decimal(digits) ==
    IF digits = << >> THEN 0
    ELSE decimal(SubSeq(digits, 1, Len(digits) - 1)) * 10
         + digit_value(digits[Len(digits)])

\* line 208: int(text) of a header text, the integer that an optional sign and
\* decimal digits denote; any other text raises ValueError (ok is FALSE)
int(text) ==
    LET signed == text # << >> /\ text[1] \in {"-", "+"}
        digits == IF signed THEN Tail(text) ELSE text
        numeral == digits # << >> /\ \A i \in 1..Len(digits) : is_digit(digits[i])
    IN  IF ~numeral THEN [ok |-> FALSE, value |-> 0]
        ELSE [ok |-> TRUE,
              value |-> IF text[1] = "-" THEN 0 - decimal(digits) ELSE decimal(digits)]

\* line 208: the ValueError of int() leaves _make_request, which has no
\* handler for it
retry_after_raises(header) == header # NoHeader /\ ~int(header[1]).ok

\* lines 208-209: the seconds to sleep after a 429, from the Retry-After
\* header or, without one, from the attempt number
retry_after(header, attempt) ==
    LET given == IF header = NoHeader
                 THEN RATE_LIMIT_RETRY_BASE_DELAY * (2 ^ (attempt - 1))
                 ELSE int(header[1]).value
        capped == IF given < max_retry_after THEN given ELSE max_retry_after
    IN  IF capped > 1 THEN capped ELSE 1

\* line 219: RATE_LIMIT_RETRY_BASE_DELAY * 1.5 ** (attempt - 1) + 0.5 * attempt,
\* in tenths of a second (exact for the attempts that sleep, 1 and 2)
sleep_time(attempt) ==
    (RATE_LIMIT_RETRY_BASE_DELAY * TicksPerSecond * (3 ^ (attempt - 1)))
        \div (2 ^ (attempt - 1))
    + (TicksPerSecond \div 2) * attempt

\* the elapsed time at which the request may begin
StartTimes == {0, 100, 450, 499, 500}

\* how long one HTTP attempt may take, up to the timeout
Durations == {1, 50, request_timeout * TicksPerSecond}

\* the Retry-After header of a 429 answer
RetryAfterSamples ==
    { << text >> : text \in
    {<<"0">>, <<"1">>, <<"3", "0">>, <<"6", "0">>, <<"1", "2", "0">>, <<"-", "5">>,
     <<"1", ".", "5">>,
     <<"W", "e", "d", ",", " ", "2", "1", " ", "O", "c", "t", " ", "2", "0", "1", "5",
       " ", "0", "7", ":", "2", "8", ":", "0", "0", " ", "G", "M", "T">>} }
    \cup {NoHeader}

RequestResponses ==
    [kind : {"items", "malformed", "dump_error", "401", "403", "404", "500", "network"},
     header : {NoHeader}] \cup
    [kind : {"429"}, header : RetryAfterSamples]

request_done(q, outcome) == [q EXCEPT !.pc = "done", !.outcome = outcome, !.sleep = 0]

\* lines 167-171
RequestStart(t) ==
    /\ req.pc = "idle"
    /\ req' = [IdleRequest EXCEPT !.pc = "loop", !.elapsed = t]
    /\ UNCHANGED <<ledger_vars, fetch, upstream, run>>

\* a retry loop without `attempt < retries`
RequestLoop_uncapped ==
    /\ req.pc = "loop"
    /\ req' = IF ~within_limit(req.elapsed) THEN request_done(req, "raised")
              ELSE [req EXCEPT !.pc = "http", !.attempt = @ + 1]
    /\ UNCHANGED <<ledger_vars, fetch, upstream, run>>

\* lines 173-179 and 223-225: the head of the retry loop, and its end
RequestLoop ==
    /\ req.pc = "loop"
    /\ req' = IF ~(req.attempt < retries) THEN request_done(req, "raised")
              ELSE IF ~within_limit(req.elapsed) THEN request_done(req, "raised")
              ELSE [req EXCEPT !.pc = "http", !.attempt = @ + 1]
    /\ UNCHANGED <<ledger_vars, fetch, upstream, run>>

\* lines 180-221: the attempt takes d and is answered with r; _make_request
\* returns, raises, or enters a sleep before the next turn of the loop
RequestRespond(r, d) ==
    /\ req.pc = "http"
    /\ LET q == [req EXCEPT !.elapsed = @ + d, !.answers = Append(@, r.kind),
                             !.header = r.header]
           f == [q EXCEPT !.last_exception = TRUE]
       IN  req' =
             CASE r.kind \in {"items", "malformed"} -> request_done(q, "returned")
               [] r.kind = "dump_error" -> request_done(q, "error")
               [] r.kind \in {"401", "403", "404"} -> request_done(f, "raised")
               [] r.kind = "429" ->
                    IF retry_after_raises(r.header) THEN request_done(f, "error")
                    ELSE IF ~within_limit(f.elapsed) THEN request_done(f, "raised")
                    ELSE [f EXCEPT !.pc = "sleep",
                                   !.sleep = retry_after(r.header, f.attempt)
                                             * TicksPerSecond]
               [] OTHER ->
                    IF ~(f.attempt < retries) THEN [f EXCEPT !.pc = "loop"]
                    ELSE IF ~within_limit(f.elapsed) THEN request_done(f, "raised")
                    ELSE [f EXCEPT !.pc = "sleep", !.sleep = sleep_time(f.attempt)]
    /\ UNCHANGED <<ledger_vars, fetch, upstream, run>>

\* lines 212 and 221: time.sleep returns
RequestWake ==
    /\ req.pc = "sleep"
    /\ req' = [req EXCEPT !.pc = "loop", !.elapsed = @ + req.sleep, !.sleep = 0]
    /\ UNCHANGED <<ledger_vars, fetch, upstream, run>>

InitRequest ==
    /\ ScoreIdle
    /\ max_points = 1000
    /\ LedgerIdle
    /\ CollectorIdle
    /\ RunIdle

NextRequest ==
    \/ \E t \in StartTimes : RequestStart(t)
    \/ RequestLoop
    \/ \E r \in RequestResponses : \E d \in Durations : RequestRespond(r, d)
    \/ RequestWake

SpecRequest == InitRequest /\ [][NextRequest]_vars

(***************************************************************************)
(* SpecRun: Proof.generate (proof.py), stage by stage, run by two          *)
(* processes over one database.  A run either begins at stage 1 (RunStart) *)
(* or is given the values stages 1 and 2 are documented to leave           *)
(* (RunEnterScoring) and goes on from stage 3.                             *)
(***************************************************************************)

\* the fields of Settings (config.py)
SettingsFields ==
    {"DB_PASSWORD", "SPOTIFY_TOKEN", "SPOTIFY_ENCRYPTED_REFRESH_TOKEN",
     "ENCRYPTION_KEY", "AWS_ACCESS_KEY_ID", "AWS_SECRET_ACCESS_KEY", "AWS_REGION",
     "REWARD_FACTOR", "MAX_POINTS", "DLP_ID", "FILE_ID", "FILE_URL", "JOB_ID",
     "OWNER_ADDRESS", "INPUT_DIR", "OUTPUT_DIR"}

\* what get_formatted_history gives its caller: an upstream failure is
\* re-raised, reading a setting that is no field of Settings raises
\* AttributeError, and the value returned is a tuple of three
get_formatted_history(upstream_ok, stats, cursor) ==
    IF ~upstream_ok THEN [outcome |-> "RequestException", value |-> << >>]
    ELSE IF "GENERATE_INSIGHTS" \notin SettingsFields
    THEN [outcome |-> "AttributeError", value |-> << >>]
    ELSE [outcome |-> "returned", value |-> <<stats, cursor, "insights">>]

\* a tuple assignment to `targets` names succeeds for a value of that length
unpacks(value, targets) == Len(value) = targets

\* values of settings.FILE_URL: unset, http://b.s3/k, https://, https:///k,
\* https://b.s3 and https://b.s3/k
FileUrls ==
    { NoUrl,
      [scheme |-> "http", netloc |-> <<"b", "s3">>, path |-> <<"k">>],
      [scheme |-> "https", netloc |-> << >>, path |-> << >>],
      [scheme |-> "https", netloc |-> << >>, path |-> <<"k">>],
      [scheme |-> "https", netloc |-> <<"b", "s3">>, path |-> << >>],
      [scheme |-> "https", netloc |-> <<"b", "s3">>, path |-> <<"k">>] }

\* `not s3_url or not s3_url.startswith("https://")` is false
url_is_https(url) == url # NoUrl /\ url.scheme = "https"

\* parsed_url.netloc.split('.')[0], "" for an empty netloc
url_bucket(url) == IF url.netloc = << >> THEN "" ELSE url.netloc[1]

\* parsed_url.path.lstrip('/'), "" for an empty path
url_key(url) == IF url.path = << >> THEN "" ELSE url.path[1]

\* `if not bucket_name or not object_key` is false
url_has_bucket_and_key(url) == url_bucket(url) # "" /\ url_key(url) # ""

\* the cursor a fetch reports as last_successful_fetch_cursor
RunCursors == {now_ms - 1000}

\* the statistics a fetch may collect: 25 points and 105 points; a run that
\* enters at stage 3 may also hold those of a fetch without events
RunStats == LedgerStats \ {ZeroStats}

\* the processes that are followed from stage 1
WholeRuns == {1}

\* settings.SPOTIFY_ENCRYPTED_REFRESH_TOKEN
RunToken == "tk"

\* runs past stage 2 that may still append a proof record
CommittingRuns == {q \in Runs : run[q].pc \notin {"idle", "done"} /\ ~run[q].whole}

\* `except Exception` and `finally`: the failed response (valid=False,
\* score=0.0) is returned and the session is closed
run_failed(r, error, env) ==
    [r EXCEPT !.pc = "done", !.outcome = "failed", !.score = float_zero,
              !.error = error, !.url = NoUrl, !.inserts = FALSE,
              !.session = session_rollback(@), !.env_ok = @ /\ env]

\* `return proof_response` and `finally`
run_returned(r) ==
    [r EXCEPT !.pc = "done", !.outcome = "valid", !.url = NoUrl,
              !.inserts = FALSE, !.session = CleanSession]

run_others == <<sc_in, sc_out, max_points, session, call, pre, last, read, fetch, upstream, req>>

\* proof.py:162-164  generate is called
RunStart(p) ==
    /\ run[p].pc = "idle"
    /\ run' = [run EXCEPT ![p] = [IdleRun EXCEPT !.pc = "user_info", !.whole = TRUE,
                                                 !.pre_len = Len(db.proofs)]]
    /\ UNCHANGED <<db, run_others>>

\* proof.py:168-169  get_user_info and the hash of the id it returns
RunUserInfo(p, a, ok) ==
    /\ run[p].pc = "user_info"
    /\ run' = [run EXCEPT ![p] =
                 IF ok THEN [@ EXCEPT !.pc = "read", !.account = a]
                 ELSE run_failed(@, "RequestException", FALSE)]
    /\ UNCHANGED <<db, run_others>>

\* proof.py:172-181  check_existing_contribution, start_cursor and
\* previous_cumulative_score
RunRead(p, db_error) ==
    /\ run[p].pc = "read"
    /\ LET a == run[p].account
           r == check_existing_contribution(db, a, db_error)
           seen == db.contrib[a] # << >>
           met == [run[p] EXCEPT
                     !.trace = Append(@, "read"),
                     !.row_seen = seen,
                     !.row_cursor = IF seen THEN db.contrib[a][1].last_spotify_fetch_cursor
                                    ELSE NoCursor]
       IN  run' = [run EXCEPT ![p] =
                     IF r.outcome = "returned"
                     THEN [met EXCEPT
                             !.pc = "fetch",
                             !.exists = r.exists,
                             !.previous = IF r.exists THEN r.latest_score ELSE float_zero,
                             !.start_cursor = IF r.exists THEN r.last_spotify_fetch_cursor
                                              ELSE NoCursor]
                     ELSE run_failed(met, r.outcome, ~db_error)]
    /\ UNCHANGED <<db, run_others>>

\* proof.py:186  get_formatted_history(start_cursor) and the assignment of
\* its value to fresh_data, last_successful_fetch_cursor (the hash of
\* fresh_data is the hash of stage 1: both come from the same token)
RunFetch(p, upstream_ok, stats, cursor) ==
    /\ run[p].pc = "fetch"
    /\ LET h == get_formatted_history(upstream_ok, stats, cursor)
           met == [run[p] EXCEPT !.trace = Append(@, "fetch"),
                                 !.stats = IF upstream_ok THEN stats ELSE @]
       IN  run' = [run EXCEPT ![p] =
                     IF h.outcome # "returned" THEN run_failed(met, h.outcome, upstream_ok)
                     ELSE IF ~unpacks(h.value, 2) THEN run_failed(met, "ValueError", TRUE)
                     ELSE [met EXCEPT !.pc = "score", !.stats = h.value[1],
                                      !.cursor = h.value[2]]]
    /\ UNCHANGED <<db, run_others>>

\* proof.py:164-193 as the comment of line 185 documents them: the run has
\* read the ledger of account a and holds the statistics and the cursor of
\* its fetch
RunEnterScoring(p, a, stats, cursor) ==
    /\ run[p].pc = "idle"
    /\ Len(db.proofs) + Cardinality(CommittingRuns) < MaxProofs
    /\ LET seen == db.contrib[a] # << >>
       IN  run' = [run EXCEPT ![p] =
                     [IdleRun EXCEPT
                        !.pc = "score", !.account = a, !.exists = seen,
                        !.previous = IF seen THEN cumulative_score(db, a) ELSE float_zero,
                        !.start_cursor = IF seen THEN db.contrib[a][1].last_spotify_fetch_cursor
                                         ELSE NoCursor,
                        !.stats = stats, !.cursor = cursor,
                        !.row_seen = seen, !.pre_len = Len(db.proofs),
                        !.trace = <<"read", "fetch">>]]
    /\ UNCHANGED <<db, run_others>>

\* proof.py:199-209  stages 3 and 4
RunScore(p) ==
    /\ run[p].pc = "score"
    /\ LET current == current_total_normalized_score(run[p].stats, max_points)
       IN  run' = [run EXCEPT ![p] =
                     [@ EXCEPT !.pc = "file_url", !.current = current,
                               !.score = differential_normalized_score(current, run[p].previous),
                               !.trace = Append(@, "score")]]
    /\ UNCHANGED <<db, run_others>>

\* stage 5 is skipped when there is no score to award
RunFileUrl_rewarded_only(p, url) ==
    /\ run[p].pc = "file_url"
    /\ run' = [run EXCEPT ![p] =
                 IF ~float_lt(float_zero, @.score) THEN [@ EXCEPT !.pc = "respond"]
                 ELSE IF url = NoUrl THEN run_failed(@, "FILE_URL is required", FALSE)
                 ELSE [@ EXCEPT !.pc = "validate", !.url = url]]
    /\ UNCHANGED <<db, run_others>>

\* proof.py:220-223  settings.FILE_URL
RunFileUrl(p, url) ==
    /\ run[p].pc = "file_url"
    /\ run' = [run EXCEPT ![p] =
                 IF url = NoUrl THEN run_failed(@, "FILE_URL is required", FALSE)
                 ELSE [@ EXCEPT !.pc = "validate", !.url = url]]
    /\ UNCHANGED <<db, run_others>>

\* proof.py:79-82  _encrypt_and_upload checks the address
RunValidate(p) ==
    /\ run[p].pc = "validate"
    /\ run' = [run EXCEPT ![p] =
                 IF url_is_https(@.url) THEN [@ EXCEPT !.pc = "write"]
                 ELSE run_failed(@, "Invalid S3 URL", FALSE)]
    /\ UNCHANGED <<db, run_others>>

\* proof.py:86-98  the JSON file is written to the temporary directory and
\* its checksum taken
RunWrite(p, ok) ==
    /\ run[p].pc = "write"
    /\ LET met == [run[p] EXCEPT !.trace = Append(@, "serialize")]
       IN  run' = [run EXCEPT ![p] =
                     IF ok THEN [met EXCEPT !.pc = "encrypt"]
                     ELSE run_failed([met EXCEPT !.trace = Append(@, "raised")],
                                     "OSError", FALSE)]
    /\ UNCHANGED <<db, run_others>>

\* proof.py:100-126  gpg.encrypt_file and the checksum of its output
RunEncrypt(p, ok) ==
    /\ run[p].pc = "encrypt"
    /\ LET met == [run[p] EXCEPT !.trace = Append(@, "encrypt")]
       IN  run' = [run EXCEPT ![p] =
                     IF ok THEN [met EXCEPT !.pc = "parse"]
                     ELSE run_failed([met EXCEPT !.trace = Append(@, "raised")],
                                     "GPG encryption failed", FALSE)]
    /\ UNCHANGED <<db, run_others>>

\* proof.py:128-137  bucket and key are taken from the address
RunParseUrl(p) ==
    /\ run[p].pc = "parse"
    /\ run' = [run EXCEPT ![p] =
                 IF url_has_bucket_and_key(@.url) THEN [@ EXCEPT !.pc = "upload"]
                 ELSE run_failed(@, "Invalid S3 URL format", FALSE)]
    /\ UNCHANGED <<db, run_others>>

\* the upload goes on to stage 6 although put_object raised
RunUpload_ignoring_failure(p, ok) ==
    /\ run[p].pc = "upload"
    /\ run' = [run EXCEPT ![p] =
                 [@ EXCEPT !.pc = "respond", !.url = NoUrl, !.env_ok = @ /\ ok,
                           !.trace = @ \o (IF ok THEN <<"upload", "published">>
                                           ELSE <<"upload", "raised">>)]]
    /\ UNCHANGED <<db, run_others>>

\* put_object is called again after it raised
RunUpload_retrying(p, ok) ==
    /\ run[p].pc = "upload"
    /\ run' = [run EXCEPT ![p] =
                 IF ok THEN [@ EXCEPT !.pc = "respond", !.url = NoUrl,
                                      !.trace = @ \o <<"upload", "published">>]
                 ELSE [@ EXCEPT !.env_ok = FALSE, !.trace = @ \o <<"upload", "raised">>]]
    /\ UNCHANGED <<db, run_others>>

\* proof.py:139-159  s3_client.put_object, and the return to generate
RunUpload(p, ok) ==
    /\ run[p].pc = "upload"
    /\ run' = [run EXCEPT ![p] =
                 IF ok THEN [@ EXCEPT !.pc = "respond", !.url = NoUrl,
                                      !.trace = @ \o <<"upload", "published">>]
                 ELSE run_failed([@ EXCEPT !.trace = @ \o <<"upload", "raised">>],
                                 "ClientError", FALSE)]
    /\ UNCHANGED <<db, run_others>>

\* proof.py:233-306  stage 6, and stage 7 when the score to award is 0
RunRespond(p) ==
    /\ run[p].pc = "respond"
    /\ run' = [run EXCEPT ![p] =
                 IF stage7_guard(@.score) THEN [@ EXCEPT !.pc = "store"]
                 ELSE run_returned(@)]
    /\ UNCHANGED <<db, run_others>>

\* store_contribution adds the proof record of the run to the session twice
RunStore_two_records(p) ==
    /\ run[p].pc = "store"
    /\ IF ~store_guard(run[p].score)
       THEN /\ run' = [run EXCEPT ![p] = run_returned(@)]
            /\ db' = db
       ELSE LET a == run[p].account
                row == upsert_row(db, a, run[p].stats, run[p].score,
                                  run[p].cursor, RunToken)
                up == stage_upsert(db, run[p].session, a, row)
                one == stage_proof(up.db, up.session, proof_record(a, run[p].score))
                res == stage_proof(one.db, one.session, proof_record(a, run[p].score))
            IN  /\ db' = res.db
                /\ run' = [run EXCEPT ![p] =
                             [@ EXCEPT !.pc = "commit", !.session = res.session,
                                       !.inserts = (db.contrib[a] = << >>)]]
    /\ UNCHANGED run_others

\* proof.py:286-296, storage.py:85-165  store_contribution up to its commit:
\* the row is queried and updated or created, the proof record is added
RunStore(p) ==
    /\ run[p].pc = "store"
    /\ IF ~store_guard(run[p].score)
       THEN /\ run' = [run EXCEPT ![p] = run_returned(@)]
            /\ db' = db
       ELSE LET a == run[p].account
                row == upsert_row(db, a, run[p].stats, run[p].score,
                                  run[p].cursor, RunToken)
                up == stage_upsert(db, run[p].session, a, row)
                res == stage_proof(up.db, up.session, proof_record(a, run[p].score))
            IN  /\ db' = res.db
                /\ run' = [run EXCEPT ![p] =
                             [@ EXCEPT !.pc = "commit", !.session = res.session,
                                       !.inserts = (db.contrib[a] = << >>)]]
    /\ UNCHANGED run_others

\* storage.py:168-186, proof.py:305-320  session.commit(): the INSERT of a
\* row for an account that has one by now violates the unique constraint
\* of account_id_hash; a failure is rolled back and re-raised
RunCommit(p, ok) ==
    /\ run[p].pc = "commit"
    /\ LET a == run[p].account
           conflict == run[p].inserts /\ db.contrib[a] # << >>
       IN  IF ok /\ ~conflict
           THEN /\ db' = session_commit(db, run[p].session)
                /\ run' = [run EXCEPT ![p] =
                             run_returned([@ EXCEPT !.trace = Append(@, "commit")])]
           ELSE /\ db' = db
                /\ run' = [run EXCEPT ![p] = run_failed(@, "SQLAlchemyError", FALSE)]
    /\ UNCHANGED run_others

\* the process is over; another may take its place
RunFinish(p) ==
    /\ run[p].pc = "done"
    /\ run' = [run EXCEPT ![p] = IdleRun]
    /\ UNCHANGED <<db, run_others>>

InitRun ==
    /\ ScoreIdle
    /\ max_points = 1000
    /\ LedgerIdle
    /\ CollectorIdle
    /\ RunIdle

NextRun ==
    \/ \E p \in WholeRuns : RunStart(p)
    \/ \E p \in Runs, a \in Accounts, ok \in BOOLEAN : RunUserInfo(p, a, ok)
    \/ \E p \in Runs, db_error \in BOOLEAN : RunRead(p, db_error)
    \/ \E p \in Runs, upstream_ok \in BOOLEAN, stats \in RunStats, cursor \in RunCursors :
          RunFetch(p, upstream_ok, stats, cursor)
    \/ \E p \in Runs, a \in Accounts, stats \in LedgerStats, cursor \in RunCursors :
          RunEnterScoring(p, a, stats, cursor)
    \/ \E p \in Runs : RunScore(p)
    \/ \E p \in Runs, url \in FileUrls : RunFileUrl(p, url)
    \/ \E p \in Runs : RunValidate(p)
    \/ \E p \in Runs, ok \in BOOLEAN : RunWrite(p, ok)
    \/ \E p \in Runs, ok \in BOOLEAN : RunEncrypt(p, ok)
    \/ \E p \in Runs : RunParseUrl(p)
    \/ \E p \in Runs, ok \in BOOLEAN : RunUpload(p, ok)
    \/ \E p \in Runs : RunRespond(p)
    \/ \E p \in Runs : RunStore(p)
    \/ \E p \in Runs, ok \in BOOLEAN : RunCommit(p, ok)
    \/ \E p \in Runs : RunFinish(p)

SpecRun == InitRun /\ [][NextRun]_vars

(***************************************************************************)
(* Claims                                                                  *)
(***************************************************************************)

\* the account's part of a ledger: its row and its proof records
LedgerOf(d, a) == [contrib |-> d.contrib[a], proofs |-> ProofsOf(d.proofs, a)]

\* C1: a call whose score to award is 0 writes nothing: from its start to its
\* end the ledger (rows, cursors, credentials, proof records) is what it was
\* before the call, whatever that prior ledger was, and nothing is pending.
C1_ZeroRewardNoWrite ==
    (call.pc # "idle" /\ call.score = float_zero) =>
        /\ db = pre
        /\ session = CleanSession
        /\ \A a \in Accounts : LedgerOf(db, a) = LedgerOf(pre, a)

\* a direct call of store_contribution with score 0 on an account that was
\* rewarded before has finished
C1_Witness ==
    /\ call.pc = "done"
    /\ call.score = float_zero
    /\ ~call.via_generate
    /\ pre.contrib[call.account] # << >>
    /\ ProofsOf(pre.proofs, call.account) # << >>

C3_RewardIsPositivePart ==
    sc_out # << >> =>
        LET r == sc_out[1].reward
            now == sc_out[1].current
            prev == sc_in.previous
        IN  /\ float_le(float_zero, r)
            /\ (float_le(now, prev) => r = float_zero)
            /\ (float_lt(prev, now) =>
                   float_lt(float_zero, r) /\ r = float_sub(now, prev))

\* a reward smaller than S_now was computed against a positive previous score
C3_Witness ==
    /\ sc_out # << >>
    /\ float_lt(float_zero, sc_in.previous)
    /\ float_lt(float_zero, sc_out[1].reward)
    /\ float_lt(sc_out[1].reward, sc_out[1].current)

\* C4: whenever check_existing_contribution has read the ledger for an
\* account without a database error, it has returned, and the cumulative
\* score it reports is the sum of the scores of the account's proof records.
C4_ReadReportsSum ==
    read.outcome \notin {"none", "SQLAlchemyError"} =>
        /\ read.outcome = "returned"
        /\ read.latest_score = SumScores(db.proofs, read.account)

InUnitInterval(x) == float_le(float_zero, x) /\ float_le(x, float_one)

\* C5: every proof record of the ledger has 0 <= score <= 1, and so has the
\* score a call computes.
C5_ScoreInUnitInterval ==
    /\ \A i \in 1..Len(db.proofs) : InUnitInterval(db.proofs[i].score)
    /\ \A i \in 1..Len(session.proofs) : InUnitInterval(session.proofs[i].score)
    /\ InUnitInterval(call.score)

\* a record with score 1.0 was appended although the points exceed MAX_POINTS
C5_Witness ==
    /\ \E i \in 1..Len(db.proofs) : db.proofs[i].score = float_one
    /\ max_points > 0
    /\ max_points < 750

BothWritten ==
    LET a == call.account
        n == Len(pre.proofs)
    IN  /\ Len(db.proofs) = n + 1
        /\ SubSeq(db.proofs, 1, n) = pre.proofs
        /\ db.proofs[n + 1] = [account_id_hash |-> a, score |-> call.score]
        /\ db.contrib[a] # << >>
        /\ db.contrib[a][1].stats = call.stats
        /\ db.contrib[a][1].latest_score = call.score
        /\ db.contrib[a][1].last_spotify_fetch_cursor = call.cursor
        /\ db.contrib[a][1].encrypted_refresh_token =
              IF call.token # "" \/ pre.contrib[a] = << >> THEN call.token
              ELSE pre.contrib[a][1].encrypted_refresh_token
        /\ \A b \in Accounts \ {a} : db.contrib[b] = pre.contrib[b]

\* C7: store_contribution is all-or-nothing.  At every moment of a call the
\* ledger either is what it was before the call or holds both the upsert and
\* the new proof record; when the call returns having passed its guard both
\* are there, when it raises neither is.
C7_CommitAllOrNothing ==
    call.pc # "idle" =>
        /\ db = pre \/ BothWritten
        /\ (call.outcome = "returned" /\ float_lt(float_zero, call.score)) => BothWritten
        /\ call.outcome = "raised" => db = pre

\* an existing row was updated and a proof appended in one commit
C7_Witness ==
    /\ call.pc = "done"
    /\ call.outcome = "returned"
    /\ BothWritten
    /\ pre.contrib[call.account] # << >>
    /\ pre.contrib[call.account][1].last_spotify_fetch_cursor # call.cursor

SuccessfulCursors ==
    {NoCursor} \cup upstream.answered \cup
    (IF start_cursor_kept(fetch.start_cursor) THEN {fetch.start_cursor} ELSE {})

C10_BudgetStopReturnsLastSucceeded ==
    upstream.stopped_by_budget =>
        /\ fetch.phase # "pages"
        /\ (fetch.pc = "done" /\ fetch.outcome = "returned") =>
              /\ fetch.all_tracks = upstream.tracks_at_stop
              /\ fetch.last_successful_before_cursor = upstream.last_answered

\* a fetch has come to its end with a budget that was already exhausted at
\* its first time check
ZeroBudgetFetchDone == fetch.pc = "done" /\ upstream.budget_zero

\* C11 (as stated): with a budget of 0 seconds the collector sends no request
\* and returns zero events and the resume cursor it was given, unchanged,
\* whatever that resume cursor is.
C11_ZeroBudgetReturnsGivenCursor ==
    ZeroBudgetFetchDone =>
        /\ ~upstream.requested
        /\ fetch.outcome = "returned"
        /\ fetch.all_tracks = << >>
        /\ fetch.last_successful_before_cursor = fetch.start_cursor

\* C11 (amended): with a budget of 0 seconds the collector sends no request
\* and returns zero events; the cursor it returns is the resume cursor when
\* that is present, not 0 and newer than now minus MAX_CURSOR_AGE_DAYS, and
\* no cursor otherwise: a stale resume cursor is discarded, not returned.
C11_ZeroBudgetReturnsFreshCursor ==
    ZeroBudgetFetchDone =>
        /\ ~upstream.requested
        /\ fetch.outcome = "returned"
        /\ fetch.all_tracks = << >>
        /\ fetch.last_successful_before_cursor =
              IF /\ fetch.start_cursor \notin {NoCursor, 0}
                 /\ fetch.start_cursor > now_ms - MAX_CURSOR_AGE_DAYS * MsPerDay
              THEN fetch.start_cursor ELSE NoCursor

C11_Witness ==
    /\ ZeroBudgetFetchDone
    /\ fetch.start_cursor = now_ms - 5000
    /\ fetch.last_successful_before_cursor = now_ms - 5000

\* the first page request of the fetch is about to be sent or in flight
FirstPageRequest ==
    /\ fetch.phase = "pages"
    /\ fetch.pc \in {"page_call", "attempt", "http", "backoff"}
    /\ fetch.page_count = 0

\* C12: the first page request uses the resume cursor exactly when a resume
\* cursor is present and not older than now minus the staleness threshold of
\* 7 days, a cursor exactly that old included; in every other case it uses
\* now.
C12_StartCursorResolution ==
    FirstPageRequest =>
        fetch.request_cursor =
            IF /\ fetch.start_cursor # NoCursor
               /\ fetch.start_cursor >= now_ms - MAX_CURSOR_AGE_DAYS * MsPerDay
            THEN fetch.start_cursor ELSE now_ms

\* C13: the collector never blocks past its budget: a backoff or retry sleep
\* that _make_request enters ends no later than the budget deadline,
\* FETCH_TIME_LIMIT_SECONDS after the start of the fetch.
C13_NoSleepPastBudget ==
    req.pc = "sleep" =>
        req.elapsed + req.sleep <= FETCH_TIME_LIMIT_SECONDS * TicksPerSecond

\* C14: once a request of the fetch has been answered 401 or 403, that
\* request is not retried and the collector sends no further request, and
\* the fetch does not return to its caller as if it had succeeded: the error
\* leaves it, so that the run fails.
C14_AuthRejectionTerminal ==
    upstream.auth_rejected =>
        /\ fetch.pc # "http"
        /\ fetch.pc = "done" => fetch.outcome # "returned"

\* the answers that _make_request may retry after
Retryable == {"500", "network", "429"}

\* C15: whatever the upstream answers, one logical request makes at most
\* `retries` (3) HTTP attempts; every attempt counts toward the cap, those
\* answered by a server error, a network error or a rate limit included; and
\* a request that gives up after such an answer has used all its attempts
\* (or has reached the time limit, or was rate-limited with a Retry-After
\* header that int() cannot read): while attempts remain it is retried.
C15_AttemptCap ==
    /\ Len(req.answers) <= retries
    /\ req.attempt = Len(req.answers) + (IF req.pc = "http" THEN 1 ELSE 0)
    /\ (/\ req.pc = "done"
        /\ req.answers # << >>
        /\ req.answers[Len(req.answers)] \in Retryable)
       => \/ Len(req.answers) = retries
          \/ ~within_limit(req.elapsed)
          \/ req.answers[Len(req.answers)] = "429" /\ retry_after_raises(req.header)

C15_Witness ==
    /\ req.pc = "done"
    /\ req.outcome = "raised"
    /\ req.answers = <<"500", "429", "network">>
    /\ within_limit(req.elapsed)

\* C16: once a request of the fetch has used up its attempts without
\* success, the fetch is over and its last error has left the collector: the
\* fetch neither goes on nor returns to its caller as if the request had
\* returned data.
C16_CapExhaustedPropagates ==
    upstream.cap_exhausted =>
        /\ fetch.pc = "done"
        /\ fetch.outcome = "raised"

\* C17: a page request answered with a malformed payload is a failed
\* request: its cursor is not recorded as successfully used, so the cursor
\* the fetch holds stays that of the last page request answered with a
\* well-formed page (or the resume cursor, or none).
C17_MalformedIsFailure ==
    upstream.malformed # NoCursor =>
        fetch.last_successful_before_cursor = upstream.last_answered

\* the track ids of the events that the stats of the run are computed from
RunEvents == formatted_tracks(fetch.all_tracks)

C18_NoTwoEventsShareTrack ==
    \A i, j \in 1..Len(RunEvents) : RunEvents[i] = RunEvents[j] => i = j

\* the tier tables of the specification: <<inclusive lower bound, points>>,
\* highest tier first
VolumeTiers == << <<5000, 500>>, <<1000, 150>>, <<500, 50>>, <<100, 25>>, <<30, 5>> >>
DiversityTiers == << <<50, 150>>, <<25, 75>>, <<10, 30>>, <<5, 10>>, <<3, 5>> >>
HistoryTiers == << <<180, 100>>, <<90, 50>>, <<30, 25>>, <<7, 10>> >>

\* the points of the first tier of the table whose lower bound v reaches
TierPoints(table, v) ==
    LET reached == { i \in 1..Len(table) : v >= table[i][1] }
    IN  IF reached = {} THEN 0
        ELSE table[CHOOSE i \in reached : \A j \in reached : i <= j][2]

\* C19: for every stats input the scorer gives volume, diversity and history
\* points as the three tier tables do, lower bounds inclusive and the highest
\* tier first, 0 below the lowest tier, and their sum as total points.
C19_TierTables ==
    sc_out # << >> =>
        LET b == sc_out[1].breakdown
            s == sc_in.stats
        IN  /\ b.volume_points = TierPoints(VolumeTiers, s.total_minutes)
            /\ b.diversity_points = TierPoints(DiversityTiers, s.unique_artists)
            /\ b.history_points = TierPoints(HistoryTiers, s.activity_period_days)
            /\ b.total_points = b.volume_points + b.diversity_points + b.history_points

\* Scenario B: 1200 minutes, 10 artists, 40 days give 150 + 30 + 25 = 205
C19_Witness ==
    /\ sc_out # << >>
    /\ sc_in.stats = [total_minutes |-> 1200, unique_artists |-> 10,
                      activity_period_days |-> 40]
    /\ sc_out[1].breakdown.total_points = 205

\* C20: each table is monotonic and so is the total: the points the scorer
\* gives for the drawn stats are at least the points it gives for any smaller
\* value of one metric, and the total is at least the total of any stats
\* that differ from the drawn ones in one statistic being smaller.
C20_TiersMonotonic ==
    sc_out # << >> =>
        LET b == sc_out[1].breakdown
            s == sc_in.stats
        IN  /\ \A m \in MinutesSamples : m < s.total_minutes =>
                  /\ calculate_volume_points(m) <= b.volume_points
                  /\ calculate_score([s EXCEPT !.total_minutes = m]).total_points
                        <= b.total_points
            /\ \A a \in ArtistSamples : a < s.unique_artists =>
                  /\ calculate_diversity_points(a) <= b.diversity_points
                  /\ calculate_score([s EXCEPT !.unique_artists = a]).total_points
                        <= b.total_points
            /\ \A d \in DaySamples : d < s.activity_period_days =>
                  /\ calculate_history_points(d) <= b.history_points
                  /\ calculate_score([s EXCEPT !.activity_period_days = d]).total_points
                        <= b.total_points

C20_Witness ==
    /\ sc_out # << >>
    /\ sc_in.stats = [total_minutes |-> 1000, unique_artists |-> 25,
                      activity_period_days |-> 90]
    /\ sc_out[1].breakdown.diversity_points > calculate_diversity_points(24)

\* C21: normalize(p, m) is 0 when m <= 0 and min(1, p / m) otherwise; for
\* every p >= 0 and every m it lies in [0, 1], and it is 0 when p = 0 and
\* when m = 0.
C21_Normalize ==
    sc_out # << >> =>
        LET p == sc_out[1].breakdown.total_points
            n == sc_out[1].current
        IN  /\ p >= 0
            /\ InUnitInterval(n)
            /\ max_points <= 0 => n = float_zero
            /\ p = 0 => n = float_zero
            /\ max_points > 0 =>
                  n = IF p >= max_points THEN float_one ELSE float_div(p, max_points)

\* 750 points against MAX_POINTS = 500 are clamped to 1.0
C21_Witness ==
    /\ sc_out # << >>
    /\ max_points = 500
    /\ sc_out[1].breakdown.total_points = 750
    /\ sc_out[1].current = float_one

\* the proof records of account a that were in the ledger when run r began
ProofsBefore(r, a) == ProofsOf(SubSeq(db.proofs, 1, r.pre_len), a)

\* the score S_now of the statistics a run fetched
SNow(r) == current_total_normalized_score(r.stats, max_points)

\* a run that began at stage 1 for an account with an empty ledger, met no
\* failure of the upstream, the publisher or the database, fetched
\* statistics with S_now > 0, and is over, no other run being at work
FirstRunOver(p) ==
    /\ run[p].pc = "done" /\ run[p].whole /\ run[p].env_ok
    /\ "fetch" \in {run[p].trace[i] : i \in DOMAIN run[p].trace}
    /\ ~run[p].row_seen /\ ProofsBefore(run[p], run[p].account) = << >>
    /\ float_lt(float_zero, SNow(run[p]))
    /\ \A q \in Runs \ {p} : run[q].pc = "idle"

\* C22: the first run of an account, with an empty ledger for it and every
\* upstream request, the publish step and the commit succeeding with
\* S_now > 0, returns a valid result whose score is S_now and leaves a
\* ContributionState and exactly one ProofRecord with that score.
C22_FirstRunPaysSNow ==
    \A p \in Runs :
        FirstRunOver(p) =>
            LET a == run[p].account
            IN  /\ run[p].outcome = "valid"
                /\ run[p].score = SNow(run[p])
                /\ db.contrib[a] # << >>
                /\ ProofsOf(db.proofs, a) = <<proof_record(a, SNow(run[p]))>>

\* the operations a run has done so far
RunDid(r) == {r.trace[i] : i \in DOMAIN r.trace}

\* _encrypt_and_upload raised ValueError for the address it was given
AddressRejected(r) == r.error \in {"Invalid S3 URL", "Invalid S3 URL format"}

\* C23: the publisher validates the destination address before any I/O:
\* whenever it rejects an address, no file has been written, nothing has
\* been encrypted and no upload has been attempted.
C23_RejectBeforeIO ==
    \A p \in Runs :
        AddressRejected(run[p]) =>
            RunDid(run[p]) \cap {"serialize", "encrypt", "upload"} = {}

\* what holds of a rejected address: no upload has been attempted
C23_RejectBeforeUpload ==
    \A p \in Runs : AddressRejected(run[p]) => "upload" \notin RunDid(run[p])

\* how many times a run has done operation op
RunCount(r, op) == Cardinality({i \in DOMAIN r.trace : r.trace[i] = op})

\* C24: the publisher retries nothing: serialization, encryption and upload
\* are each attempted at most once per run, and a failure of any of them is
\* propagated: the run ends failed, without a ledger commit.
C24_PublisherNoRetry ==
    \A p \in Runs :
        /\ \A op \in {"serialize", "encrypt", "upload"} : RunCount(run[p], op) <= 1
        /\ "raised" \in RunDid(run[p]) =>
              /\ run[p].pc = "done"
              /\ run[p].outcome = "failed"
              /\ "commit" \notin RunDid(run[p])
              /\ run[p].session = CleanSession

C24_Witness ==
    \E p \in Runs :
        /\ run[p].pc = "done" /\ run[p].outcome = "failed"
        /\ run[p].trace = <<"read", "fetch", "score", "serialize", "encrypt", "upload", "raised">>
        /\ ProofsOf(db.proofs, run[p].account) = ProofsBefore(run[p], run[p].account)

\* every occurrence of operation y in the trace of r has an x before it
Precedes(r, x, y) ==
    \A j \in DOMAIN r.trace :
        r.trace[j] = y => \E i \in 1..(j - 1) : r.trace[i] = x

ReadOfResumable(r) ==
    /\ r.whole /\ "read" \in RunDid(r) /\ r.error # "SQLAlchemyError"
    /\ r.row_seen /\ start_cursor_kept(r.row_cursor)

\* C26: for an account whose ContributionState holds a non-stale cursor c,
\* the read of the next run returns exists = true with cursor c, and the
\* run hands c to its fetch as the cursor of the first page request.
C26_ResumesFromStoredCursor ==
    \A p \in Runs :
        ReadOfResumable(run[p]) =>
            /\ run[p].exists
            /\ run[p].start_cursor = run[p].row_cursor
            /\ run[p].pc = "fetch" \/ "fetch" \in RunDid(run[p])

\* the larger of two scores
float_max(x, y) == IF float_lt(x, y) THEN y ELSE x

\* both runs are over, were for account a, which had a ContributionState,
\* and read the ledger before either of them committed; the cumulative
\* score they read did not exceed the larger S_now
RacedOn(a) ==
    /\ \A p \in Runs : /\ run[p].pc = "done" /\ run[p].outcome = "valid"
                       /\ run[p].account = a /\ run[p].row_seen
    /\ run[1].pre_len = run[2].pre_len
    /\ float_le(run[1].previous, float_max(run[1].current, run[2].current))

GrowsByOne(s, t) == Len(t) = Len(s) + 1 /\ SubSeq(t, 1, Len(s)) = s

\* what one step does to the proof records: they stay as they are, or one
\* run ends with its commit and its one record, of a positive score, is
\* the only change; a run that ends valid with a positive score has
\* appended its record, one that ends otherwise has left them alone
ProofRecordsStep ==
    /\ db'.proofs = db.proofs \/ GrowsByOne(db.proofs, db'.proofs)
    /\ \A p \in Runs :
          run[p].pc # "done" /\ run'[p].pc = "done" =>
              IF run'[p].outcome = "valid" /\ float_lt(float_zero, run[p].score)
              THEN db'.proofs = Append(db.proofs, proof_record(run[p].account, run[p].score))
              ELSE db'.proofs = db.proofs
    /\ db'.proofs # db.proofs =>
          \E p \in Runs : run[p].pc = "commit" /\ run'[p].pc = "done"
    /\ \A a \in Accounts : db.contrib[a] # << >> => db'.contrib[a] # << >>

\* C28: each run appends at most one ProofRecord, and exactly one when its
\* reward is positive and its commit succeeds; ProofRecords are only ever
\* appended and no ContributionState is ever deleted.
C28_OneProofRecordPerRun ==
    /\ [](\A p \in Runs : /\ RunCount(run[p], "commit") <= 1
                         /\ Len(run[p].session.proofs) <= 1)
    /\ [][ProofRecordsStep]_vars

C28_Witness ==
    \E p \in Runs :
        /\ run[p].pc = "done" /\ run[p].outcome = "valid"
        /\ "commit" \in RunDid(run[p])
        /\ run[p].pre_len = 1 /\ Len(db.proofs) = 2
        /\ db.proofs[2] = proof_record(run[p].account, run[p].score)
        /\ db.contrib[run[p].account] # << >>

\* a call of get_recently_played is in progress: the page request that
\* follows the fetch.page_count requests that have returned
PageRequestInProgress ==
    fetch.phase = "pages" /\ fetch.pc \in {"page_call", "attempt", "http", "backoff"}

\* C29: in one run the collector issues at most MAX_RECENT_PAGES (15) page
\* requests to the recently-played endpoint, whatever the upstream returns:
\* a page request is made only after fewer than 15 have returned, and the
\* 15th that returns ends the pagination.
C29_AtMostMaxPages ==
    /\ fetch.page_count <= MAX_RECENT_PAGES
    /\ PageRequestInProgress => fetch.page_count + 1 <= MAX_RECENT_PAGES
    /\ fetch.phase # "pages" => fetch.pc \notin {"page_top", "page_call"}

C29_Witness ==
    /\ fetch.phase = "pages" /\ fetch.pc = "page_top"
    /\ fetch.page_count = MAX_RECENT_PAGES

C30_NoRequestAfterLastPage ==
    upstream.stop_page # << >> => fetch.phase # "pages"

\* C30, its second half alone, for the pages the pagination does stop at:
\* each track of a well-formed event of the page has its event
C30_StoppingPageKept ==
    (upstream.stop_page # << >> /\ fetch.phase # "pages") =>
        \A t \in upstream.stop_page[1] : \E i \in 1..Len(RunEvents) : RunEvents[i] = t

\* the pagination goes on after the page the upstream has just answered
PageFollowed ==
    upstream.page_seen # << >> /\ fetch.phase = "pages" /\ fetch.pc = "page_top"

C32_CheckedBeforeRequestAndSleep ==
    fetch.pc \in {"http", "backoff"} => ~upstream.expired

\* a rate-limit wait that follows the answer to the last permitted attempt
C32_Witness ==
    /\ fetch.pc = "backoff"
    /\ fetch.attempt = retries
    /\ upstream.requested
    /\ ~upstream.expired

\* the attempt before this state was answered 429, and the budget check of
\* line 211 did not end the request
RateLimitedWithinBudget ==
    /\ req.pc \in {"sleep", "done"}
    /\ req.answers # << >>
    /\ req.answers[Len(req.answers)] = "429"
    /\ ~(req.pc = "done" /\ req.outcome = "raised")

\* x brought into the range of 1 to 60 seconds
clamped(x) == IF x < 1 THEN 1 ELSE IF x > 60 THEN 60 ELSE x

\* the wait the request is in, in seconds, is w
WaitsFor(w) == req.pc = "sleep" /\ req.sleep = clamped(w) * TicksPerSecond

\* C33: after a 429 answer the request waits, and the wait is between 1 and 60
\* seconds whatever the Retry-After header holds: the header's value clamped
\* when there is one, the backoff 2 * 2^(attempt-1) clamped when there is none.
C33_RateLimitWaitClamped ==
    RateLimitedWithinBudget =>
        /\ req.pc = "sleep"
        /\ TicksPerSecond <= req.sleep
        /\ req.sleep <= 60 * TicksPerSecond
        /\ req.header = NoHeader => WaitsFor(2 * 2 ^ (req.attempt - 1))

\* the same for the headers that hold an integer: the wait is that integer
\* clamped
C33_IntegerHeaderClamped ==
    RateLimitedWithinBudget /\ ~retry_after_raises(req.header) =>
        IF req.header = NoHeader THEN WaitsFor(2 * 2 ^ (req.attempt - 1))
        ELSE WaitsFor(int(req.header[1]).value)

\* a page of the pagination has just been answered and its items processed
PageProcessed == upstream.page_seen # << >> /\ fetch.phase = "pages"

\* the item is one the claim calls malformed: no track or no track id, or a
\* played_at that is missing or does not parse
Malformed(e) == ~(entry_valid(e) /\ e.ms # NoCursor)

\* the track ids that had an entry in the scoring list before the page
SeenBefore ==
    { fetch.all_tracks[i].id : i \in 1..upstream.page_seen[2].kept_before }

\* the track ids with an event before the page
EventsBefore ==
    LET before == formatted_tracks(SubSeq(fetch.all_tracks, 1,
                                          upstream.page_seen[2].kept_before))
    IN  { before[i] : i \in 1..Len(before) }

EventsNow == { RunEvents[i] : i \in 1..Len(RunEvents) }

C34_MalformedGivesNoEvent ==
    PageProcessed =>
        LET page == upstream.page_seen[2].page
        IN  /\ fetch.outcome = "none"
            /\ EventsNow \subseteq EventsBefore \cup page_offers(page)
            /\ \A i \in 1..Len(page) :
                  ~Malformed(page[i]) /\ page[i].id \notin SeenBefore
                  /\ (\A j \in 1..Len(page) : Malformed(page[j]) => page[j].id # page[i].id)
                  => page[i].id \in EventsNow

\* the times of the events of the run: the entries that parse
EventTimes == { sc_in.entries[i] : i \in 1..Len(sc_in.entries) } \ {NoCursor}

FirstEvent == CHOOSE t \in EventTimes : \A u \in EventTimes : t <= u

LastEvent == CHOOSE t \in EventTimes : \A u \in EventTimes : u <= t

\* the day a time falls on
DayOf(t) == t \div MsPerDay

\* the activity period is 0 and both dates are null
NoActivity ==
    /\ sc_out[1].activity_period_days = 0
    /\ sc_out[1].first_listen_date = NoDate
    /\ sc_out[1].last_listen_date = NoDate

C35_WholeDaysPlusOne ==
    sc_out # << >> =>
        /\ NoActivity <=> EventTimes = {}
        /\ EventTimes # {} =>
              /\ sc_out[1].activity_period_days >= 1
              /\ sc_out[1].activity_period_days
                    = ((LastEvent - FirstEvent) \div MsPerDay) + 1

\* a call of _make_request is in progress
InRequest == fetch.pc \in {"attempt", "http", "backoff"}

\* the page requests that the pagination may still begin
PagesLeft ==
    IF fetch.phase # "pages" \/ fetch.pc = "done" THEN 0
    ELSE MAX_RECENT_PAGES - fetch.page_count
         - (IF InRequest \/ fetch.pc = "page_call" THEN 1 ELSE 0)

\* the top-tracks and top-artists queries that the fetch may still begin
SnapshotsLeft ==
    IF fetch.pc = "done" THEN 0
    ELSE IF fetch.phase = "pages" THEN 6
    ELSE IF fetch.phase = "top_tracks" THEN (3 - fetch.range) + 3
    ELSE 3 - fetch.range

\* the HTTP attempts that the call in progress may still make
AttemptsLeft ==
    IF fetch.pc \in {"page_call", "tops_call"} THEN retries
    ELSE IF InRequest THEN retries - fetch.attempt
    ELSE 0

\* a bound on the HTTP attempts the fetch may still make
RequestsLeft == (PagesLeft + SnapshotsLeft) * retries + AttemptsLeft

\* the step sends an HTTP attempt
SendsRequest == fetch.pc = "attempt" /\ fetch'.pc = "http"

\* the bound never grows while the fetch runs, and an HTTP attempt lowers it
RequestsLeftStep ==
    fetch.pc # "idle" =>
        /\ RequestsLeft' <= RequestsLeft
        /\ SendsRequest => RequestsLeft' < RequestsLeft

\* C36: a fetch that has begun ends, whatever the upstream answers, as long
\* as every request is answered or times out and every sleep ends; the
\* requests it sends are bounded: at most 15 page requests and 6 top-tracks
\* and top-artists queries, of at most 3 HTTP attempts each, so that 63
\* attempts at most remain when it begins and each attempt leaves one fewer.
C36_FetchTerminates ==
    /\ [](/\ PagesLeft >= 0
          /\ SnapshotsLeft >= 0
          /\ AttemptsLeft >= 0
          /\ RequestsLeft <= (MAX_RECENT_PAGES + 6) * retries)
    /\ [][RequestsLeftStep]_vars
    /\ (fetch.pc # "idle") ~> (fetch.pc = "done")

\* the fetch has ended after the last attempt of the last query
C36_Witness ==
    /\ fetch.pc = "done"
    /\ fetch.phase = "top_artists"
    /\ fetch.range = 3
    /\ upstream.cap_exhausted
    /\ upstream.requested

\* the number of committed ProofRecords of the account
ProofRecords(a) == Len(ProofsOf(db.proofs, a))

\* C37: in every committed ledger state an account has a ContributionState
\* exactly when it has at least one ProofRecord, every ProofRecord has a score
\* above 0, and so the count of rewarded proofs that readExisting queries for
\* an account, and returns when it returns one, is the number of its
\* ProofRecords.
C37_StateIffProofRecord ==
    /\ \A a \in Accounts : db.contrib[a] # << >> <=> ProofRecords(a) > 0
    /\ \A i \in 1..Len(db.proofs) : float_lt(float_zero, db.proofs[i].score)
    /\ \A a \in Accounts : times_rewarded(db, a) = ProofRecords(a)
    /\ read.outcome = "returned" /\ read.exists =>
          read.times_rewarded = ProofRecords(read.account)

\* one account rewarded twice, the other never
C37_Witness ==
    /\ call.pc = "idle"
    /\ ProofRecords("a1") = 2
    /\ db.contrib["a1"] # << >>
    /\ ProofRecords("a2") = 0
    /\ db.contrib["a2"] = << >>

\* S_now of the last run that committed for the account: the row holds the
\* statistics of that run, and since a run commits only when its S_now is
\* above the sum of the scores paid so far, it is the largest S_now among the
\* runs that committed
LargestCommitted(a) ==
    current_total_normalized_score(db.contrib[a][1].stats, max_points)

C38_CumulativeAtMostOne ==
    \A a \in Accounts :
        /\ float_le(cumulative_score(db, a), float_one)
        /\ db.contrib[a] # << >> =>
              float_le(cumulative_score(db, a), LargestCommitted(a))

\* both runs are over, were for account a, which had no ContributionState
\* and no ProofRecord when they read the ledger, no run committed between
\* their reads, both had a positive reward to claim, and both got as far as
\* the commit of store_contribution
FreshRace(a) ==
    /\ \A p \in Runs :
          /\ run[p].pc = "done" /\ run[p].account = a
          /\ ~run[p].row_seen /\ ~run[p].exists
          /\ float_lt(run[p].previous, run[p].current)
          /\ run[p].outcome = "valid" \/ run[p].error = "SQLAlchemyError"
          /\ ProofsBefore(run[p], a) = << >>
    /\ run[1].pre_len = run[2].pre_len

\* the runs that committed
Committed == { p \in Runs : "commit" \in RunDid(run[p]) }

C39_LosingInsertFailsWhole ==
    [][\A p \in Runs :
          ( /\ run[p].pc = "commit"
            /\ run[p].inserts
            /\ db.contrib[run[p].account] # << >>
            /\ run'[p].pc = "done" ) =>
              /\ run'[p].outcome = "failed"
              /\ db' = db]_vars

\* the run is over, got past the fetch, found a destination address that the
\* publisher accepted, and neither the temporary file nor gpg failed it
PublisherCouldUpload(r) ==
    /\ r.pc = "done"
    /\ "score" \in RunDid(r)
    /\ r.error \notin {"FILE_URL is required", "Invalid S3 URL", "Invalid S3 URL format",
                       "OSError", "GPG encryption failed"}

\* C40: the upload does not depend on the reward: every run that completes
\* the fetch and has a destination address has encrypted the raw data and
\* attempted the upload when it ends, and a run that ends valid with a reward
\* of 0 has uploaded and has committed nothing to the ledger.
C40_UploadWhateverReward ==
    \A p \in Runs :
        /\ PublisherCouldUpload(run[p]) =>
              {"serialize", "encrypt", "upload"} \subseteq RunDid(run[p])
        /\ ( /\ run[p].pc = "done" /\ run[p].outcome = "valid"
             /\ ~float_lt(float_zero, run[p].score) ) =>
              /\ "published" \in RunDid(run[p])
              /\ "commit" \notin RunDid(run[p])

\* a run that fetched no events has uploaded, and the ledger is as it was
\* when the run began
C40_Witness ==
    /\ run[2].pc = "done"
    /\ run[2].outcome = "valid"
    /\ run[2].stats = ZeroStats
    /\ run[2].score = float_zero
    /\ "published" \in RunDid(run[2])
    /\ db = EmptyDB
    /\ run[1].pc = "idle"

====
